---- MODULE Spec2Model ----
(***************************************************************************)
(* CyberAsio-Core: the audio engine's background metrics loop              *)
(* (cpp-backend/src/audio_engine.cpp), the web server's accept loop and    *)
(* request dispatcher (cpp-backend/src/webserver.cpp) and the part of      *)
(* main() that starts the server (cpp-backend/src/main.cpp), as state      *)
(* machines.                                                               *)
(*                                                                         *)
(* Threads of the engine: one controller (the thread that calls            *)
(* initialize, shutdown, setConfig, play, pause, stop and                  *)
(* setVisualizationCallback), the audio thread spawned by initialize, and  *)
(* one observer calling getMetrics.  A step that only touches data under   *)
(* metrics_mutex_ is one atomic action (acquire, write, release); the      *)
(* mutex is a variable because generateSpectrumData keeps it while the     *)
(* visualization callback runs.                                            *)
(*                                                                         *)
(* Spectrum values are integers in units of 1/One (One = 32000), so that   *)
(* base_level (a multiple of 1/320), random_factor and time_factor         *)
(* (tenths) multiply exactly.  Latencies are integers in units of          *)
(* 1000/RateLcm ms, so that buffer_size / sample_rate * 1000 is exact for  *)
(* every sample rate the model draws.  playback_position_ and the samples  *)
(* of audio_buffer_ are not part of the state: nothing modelled reads      *)
(* them (audio_buffer_ is never empty once initialize has run).            *)
(***************************************************************************)
EXTENDS Integers, Sequences, FiniteSets, TLC

\* ------------------------------------------------------------- bounds
\* The ghost counter of completed idle ticks saturates here.
MaxQuietTicks == 2
\* Clients that may connect to the web server in one run.
MaxClients == 2
\* The ghost counter of consecutive stop() calls saturates here.
MaxStopCalls == 2
\* Routes registered with addRoute after the constructor's.
MaxAddedRoutes == 1
\* Device ids passed to the device manager: 0..MaxDeviceId; the table holds
\* the ids 1..4, so 0 and MaxDeviceId are ids of no device.
MaxDeviceId == 5
\* Direct updateDeviceStatus() calls by the owner in one run.
MaxStatusUpdates == 1

\* ---------------------------------------------------------- constants
NumBins == 32

One == (NumBins * 10) * 10 * 10

Min(a, b) == IF a < b THEN a ELSE b

\* ------------------------------------------------------ AudioConfig
DefaultConfig == [sample_rate |-> 48000, buffer_size |-> 256,
                  bit_depth |-> 24, channels |-> 2]

\* The configurations the controller may pass to initialize and setConfig:
\* the default, one with another sample rate, one with another buffer size
\* and one that differs in channels only.
Configs ==
    { DefaultConfig,
      [DefaultConfig EXCEPT !.sample_rate = 44100],
      [DefaultConfig EXCEPT !.buffer_size = 512],
      [DefaultConfig EXCEPT !.channels = 1] }

\* Least common multiple of the sample rates ConfigManager accepts
\* (44100, 48000, 88200, 96000, 192000) = 2^9 * 3^2 * 5^3 * 7^2.
RateLcm == 512 * 9 * 125 * 49
\* Their greatest common divisor, 2^2 * 3 * 5^2.
RateGcd == 4 * 3 * 25

\* calculateLatency: buffer_time_ms = buffer_size / sample_rate * 1000.0,
\* in units of 1000/RateLcm ms.
BufferTime(cfg) == cfg.buffer_size * (RateLcm \div cfg.sample_rate)

\* ------------------------------------------------------ AudioMetrics
\* stop(): spectrum_data.assign(32, 0.0f)
ZeroSpectrum == [i \in 1..NumBins |-> 0]

\* Faulty variant: the fade-out fills the bins with 0.0f, as stop() does.
FadeOutToZero == ZeroSpectrum

\* generateSpectrumData, not playing: resize(32); fill(.., 0.1f)
FadeOutSpectrum == [i \in 1..NumBins |-> One \div 10]

\* base_level = max(0.1f, 1.0f - i / 32.0f), in units of 1/(10 * NumBins)
BaseLevel(i) ==
    IF NumBins > 10 * NumBins - 10 * i THEN NumBins
                                       ELSE 10 * NumBins - 10 * i

\* time_factor of bin i: the sine is phase-shifted per bin (i * 0.5f); a draw
\* t of the tick gives even bins t and odd bins the opposite phase.
TimeFactor(t, i) == IF i % 2 = 0 THEN t ELSE 10 - t

\* generateSpectrumData, playing: bin i = base_level * random_factor * time_factor
LiveSpectrum(r, t) == [k \in 1..NumBins |-> BaseLevel(k - 1) * r * TimeFactor(t, k - 1)]

\* uniform_real_distribution<float> dis(0.1f, 1.0f), in tenths: its ends.
RandomFactors == {1, 10}
\* 0.5f + 0.5f * sin(..) ranges over [0, 1], in tenths: its ends.
TimeFactors == {0, 10}

\* ------------------------------------------------------------ state
VARIABLES
    \* AudioEngine
    initialized_,            \* std::atomic<bool>
    playing_,                \* std::atomic<bool>
    should_stop_,            \* std::atomic<bool>
    config_,                 \* AudioConfig
    current_metrics_,        \* AudioMetrics, guarded by metrics_mutex_
    metrics_mutex_,          \* "free" or the thread that holds it
    visualization_callback_, \* "none" or what the registered callback does
    audio_thread_,           \* position of audioThreadFunction, "none" without a thread
    ctl_pc,                  \* position of the controller inside its operation
    ctl_op,                  \* the public operation the controller is executing
    ctl_arg,                 \* the AudioConfig argument of that operation
    crashed,                 \* the process was terminated
    \* history of the engine, read by the properties only
    config_set,              \* a setConfig() has returned true since initialize()
    got_partial,             \* the observer's last getMetrics() saw a part of a tick
    tick_wrote,              \* the running tick published is_playing, not the spectrum
    quiet,                   \* -1, or ticks begun and completed since pause()/stop()
    tick_counts,             \* the running tick began after that pause()/stop() returned
    \* WebServer
    running_,                \* bool
    listen_socket,           \* "none", "open" or "closed": start()'s server_socket
    accept_loop,             \* position of the server thread, "none" without one
    conn,                    \* per client: the state of its connection
    backlog,                 \* connections completed by the kernel, not yet accepted
    responded,               \* clients whose handler has sent a response
    \* history of the server, read by the properties only
    stop_calls,              \* consecutive stop() calls since the last start()
    late,                    \* clients that connected after stop() had returned
    behind_slow,             \* clients accepted while SlowClient's handler ran
    open_sockets,            \* sockets start() created that are not closed yet
    closes,                  \* per client: closesocket() calls on its socket
    in_flight,               \* open connections a stop() call found unanswered
    \* main
    main_pc,                 \* position of main()
    start_ret,               \* what start() returned to main(), "none" before
    exit_code,               \* -1 while the process runs, then its exit code
    \* WebServer: the dispatcher
    routes_,                 \* std::vector<Route>
    static_directory_,       \* std::string
    audio_engine_,           \* FALSE for a null shared_ptr
    device_manager_,         \* FALSE for a null shared_ptr
    config_manager_,         \* FALSE for a null shared_ptr
    files,                   \* the file system: location |-> content
    request,                 \* the bytes recv() gave the last handleClient
    response,                \* what that handleClient computed and sent
    handled,                 \* what handleRequest did to compute it
    \* DeviceManager
    devices_,                \* std::vector<AudioDevice>
    device_status_,          \* std::map<int, DeviceStatus>
    active_device_id_,       \* int, -1 for none
    \* history of the device manager, read by the properties only
    dm_call,                 \* the last operation called, its id and its result
    status_updates,          \* updateDeviceStatus() calls made by the owner
    \* ConfigManager
    system_config_,          \* SystemConfig
    device_profiles_,        \* the keys of std::map<int, AudioConfig>
    config_change_callback_, \* FALSE for an empty std::function
    \* history of the configuration manager, read by the properties only
    cm_call                  \* the last operation called, its result, and
                             \* whether it called the change callback

engineVars == << initialized_, playing_, should_stop_, config_, current_metrics_,
                 metrics_mutex_, visualization_callback_, audio_thread_, ctl_pc,
                 ctl_op, ctl_arg, crashed, config_set, got_partial,
                 tick_wrote, quiet, tick_counts >>

serverVars == << running_, listen_socket, accept_loop, conn, backlog, responded,
                 stop_calls, late, behind_slow, open_sockets, closes,
                 in_flight >>

mainVars == << main_pc, start_ret, exit_code >>

routerVars == << routes_, static_directory_, audio_engine_, device_manager_,
                config_manager_, files, request, response, handled >>

deviceVars == << devices_, device_status_, active_device_id_, dm_call,
                 status_updates >>

configVars == << system_config_, device_profiles_, config_change_callback_,
                 cm_call >>

managerVars == << deviceVars, configVars >>

restVars == << mainVars, routerVars, managerVars >>

vars == << engineVars, serverVars, mainVars, routerVars, managerVars >>

\* ======================================================= AudioEngine

EngineInit ==
    /\ initialized_ = FALSE
    /\ playing_ = FALSE
    /\ should_stop_ = FALSE
    /\ config_ = DefaultConfig
    /\ current_metrics_ =
          [input_latency |-> 0, output_latency |-> 0, total_latency |-> 0,
           spectrum_data |-> << >>, is_playing |-> FALSE]
    /\ metrics_mutex_ = "free"
    /\ visualization_callback_ = "none"
    /\ audio_thread_ = "none"
    /\ ctl_pc = "idle"
    /\ ctl_op = "none"
    /\ ctl_arg = DefaultConfig
    /\ crashed = FALSE
    /\ config_set = FALSE
    /\ got_partial = FALSE
    /\ tick_wrote = FALSE
    /\ quiet = -1
    /\ tick_counts = FALSE

\* The process is alive; no operation runs in a terminated process.
Alive == ~crashed

\* std::mutex::lock() by the thread that already owns the mutex is undefined
\* behaviour: the thread blocks for ever (pthread default mutex) or the
\* implementation detects it and the process is terminated.
RelockOwnMutex ==
    \/ audio_thread_' = "deadlocked" /\ crashed' = FALSE
    \/ audio_thread_' = audio_thread_ /\ crashed' = TRUE

\* History: a tick has returned from generateSpectrumData.
TickCompleted ==
    /\ quiet' = IF tick_counts /\ quiet >= 0 THEN Min(quiet + 1, MaxQuietTicks) ELSE quiet
    /\ tick_counts' = FALSE

\* History: pause() or stop() has returned; a tick in progress is not "the next tick".
BecameInactive ==
    /\ quiet' = 0
    /\ tick_counts' = FALSE

ctlVars == << ctl_pc, ctl_op, ctl_arg >>
ghostVars == << config_set, got_partial, tick_wrote, quiet, tick_counts >>

\* ----------------------------------------------------- audio thread

CallbackRunning ==
    audio_thread_ \in {"cb_plain", "cb_getMetrics", "cb_stop", "deadlocked"}

\* while (!should_stop_) { ... if (elapsed.count() >= 50) { tick } ... }
AudioCheck ==
    /\ Alive
    /\ audio_thread_ = "check"
    /\ \/ /\ should_stop_
          /\ audio_thread_' = "done"
          /\ UNCHANGED tick_counts
       \/ /\ ~should_stop_
          /\ audio_thread_' = "process"       \* 50 ms have elapsed: a tick begins
          /\ tick_counts' = (quiet >= 0)
       \/ /\ ~should_stop_
          /\ audio_thread_' = "sleep"         \* not yet
          /\ UNCHANGED tick_counts
    /\ UNCHANGED << initialized_, playing_, should_stop_, config_,
                    current_metrics_, metrics_mutex_, visualization_callback_,
                    ctlVars, crashed, config_set, got_partial, tick_wrote,
                    quiet, serverVars, restVars >>

\* processAudioBuffer: if (!playing_ || audio_buffer_.empty()) return;
AudioProcess ==
    /\ Alive
    /\ audio_thread_ = "process"
    /\ audio_thread_' = IF playing_ THEN "process_lock" ELSE "generate"
    /\ UNCHANGED << initialized_, playing_, should_stop_, config_,
                    current_metrics_, metrics_mutex_, visualization_callback_,
                    ctlVars, crashed, ghostVars, serverVars, restVars >>

\* processAudioBuffer: lock_guard; current_metrics_.is_playing = true;
AudioProcessLock ==
    /\ Alive
    /\ audio_thread_ = "process_lock"
    /\ metrics_mutex_ = "free"
    /\ current_metrics_' = [current_metrics_ EXCEPT !.is_playing = TRUE]
    /\ tick_wrote' = TRUE
    /\ audio_thread_' = "generate"
    /\ UNCHANGED << initialized_, playing_, should_stop_, config_,
                    metrics_mutex_, visualization_callback_, ctlVars, crashed,
                    config_set, got_partial, quiet, tick_counts, serverVars,
                    restVars >>

\* generateSpectrumData: lock_guard; the playing branch calls the callback
\* before the guard is released.
AudioGenerate ==
    /\ Alive
    /\ audio_thread_ = "generate"
    /\ metrics_mutex_ = "free"
    /\ tick_wrote' = FALSE
    /\ \/ /\ playing_
          /\ \E r \in RandomFactors, t \in TimeFactors :
                current_metrics_' = [current_metrics_ EXCEPT
                                        !.spectrum_data = LiveSpectrum(r, t)]
          /\ IF visualization_callback_ # "none"
                THEN /\ metrics_mutex_' = "audio"
                     /\ audio_thread_' =
                           CASE visualization_callback_ = "plain" -> "cb_plain"
                             [] visualization_callback_ = "getMetrics" ->
                                  "cb_getMetrics"
                             [] visualization_callback_ = "stop" -> "cb_stop"
                     /\ UNCHANGED << quiet, tick_counts >>
                ELSE /\ metrics_mutex_' = "free"
                     /\ audio_thread_' = "sleep"
                     /\ TickCompleted
       \/ /\ ~playing_
          /\ current_metrics_' = [current_metrics_ EXCEPT
                                      !.spectrum_data = FadeOutSpectrum]
          /\ metrics_mutex_' = "free"
          /\ audio_thread_' = "sleep"
          /\ TickCompleted
    /\ UNCHANGED << initialized_, playing_, should_stop_, config_,
                    visualization_callback_, ctlVars, crashed, config_set,
                    got_partial, serverVars, restVars >>

\* visualization_callback_(current_metrics_.spectrum_data), metrics_mutex_ held.
\* A callback that calls getMetrics() or stop() locks metrics_mutex_ again.
AudioCallback ==
    /\ Alive
    /\ \/ /\ audio_thread_ = "cb_plain"
          /\ metrics_mutex_' = "free"
          /\ audio_thread_' = "sleep"
          /\ TickCompleted
          /\ UNCHANGED << playing_, crashed >>
       \/ /\ audio_thread_ = "cb_getMetrics"
          /\ RelockOwnMutex
          /\ UNCHANGED << playing_, metrics_mutex_, quiet, tick_counts >>
       \/ /\ audio_thread_ = "cb_stop"
          /\ playing_' = FALSE
          /\ RelockOwnMutex
          /\ UNCHANGED << metrics_mutex_, quiet, tick_counts >>
    /\ UNCHANGED << initialized_, should_stop_, config_, current_metrics_,
                    visualization_callback_, ctlVars, config_set, got_partial,
                    tick_wrote, serverVars, restVars >>

\* std::this_thread::sleep_for(10 ms)
AudioSleep ==
    /\ Alive
    /\ audio_thread_ = "sleep"
    /\ audio_thread_' = "check"
    /\ UNCHANGED << initialized_, playing_, should_stop_, config_,
                    current_metrics_, metrics_mutex_, visualization_callback_,
                    ctlVars, crashed, ghostVars, serverVars, restVars >>

AudioThread ==
    AudioCheck \/ AudioProcess \/ AudioProcessLock \/ AudioGenerate
        \/ AudioCallback \/ AudioSleep

\* ------------------------------------------------------- controller

\* Faulty variant: needs_restart forgets the buffer size.
needs_restart_without_buffer(config, old) ==
    \/ config.sample_rate # old.sample_rate
    \/ config.bit_depth # old.bit_depth

\* setConfig: needs_restart
needs_restart(config, old) ==
    \/ config.sample_rate # old.sample_rate
    \/ config.buffer_size # old.buffer_size
    \/ config.bit_depth # old.bit_depth

\* calculateLatency, under metrics_mutex_
calculateLatency(m, cfg) ==
    [m EXCEPT !.input_latency = BufferTime(cfg),
              !.output_latency = BufferTime(cfg),
              !.total_latency = BufferTime(cfg) + BufferTime(cfg)]

Returned ==
    /\ ctl_pc' = "idle"
    /\ ctl_op' = "none"
    /\ ctl_arg' = DefaultConfig

\* play(): if (!initialized_) return; playing_ = true;
CtlPlay ==
    /\ Alive
    /\ ctl_pc = "idle"
    /\ IF initialized_
         THEN playing_' = TRUE /\ quiet' = -1 /\ tick_counts' = FALSE
         ELSE UNCHANGED << playing_, quiet, tick_counts >>
    /\ Returned
    /\ UNCHANGED << initialized_, should_stop_, config_, current_metrics_,
                    metrics_mutex_, visualization_callback_, audio_thread_,
                    crashed, config_set, got_partial, tick_wrote, serverVars,
                    restVars >>

\* Faulty variant: pause() also clears is_playing in the snapshot.
CtlPauseWritesSnapshot ==
    /\ Alive
    /\ ctl_pc = "idle"
    /\ metrics_mutex_ = "free"
    /\ playing_' = FALSE
    /\ current_metrics_' = [current_metrics_ EXCEPT !.is_playing = FALSE]
    /\ BecameInactive
    /\ Returned
    /\ UNCHANGED << initialized_, should_stop_, config_, metrics_mutex_,
                    visualization_callback_, audio_thread_, crashed,
                    config_set, got_partial, tick_wrote, serverVars,
                    restVars >>

\* pause(): playing_ = false;
CtlPause ==
    /\ Alive
    /\ ctl_pc = "idle"
    /\ playing_' = FALSE
    /\ BecameInactive
    /\ Returned
    /\ UNCHANGED << initialized_, should_stop_, config_, current_metrics_,
                    metrics_mutex_, visualization_callback_, audio_thread_,
                    crashed, config_set, got_partial, tick_wrote, serverVars,
                    restVars >>

\* stop(), first statements: playing_ = false; playback_position_ = 0;
\* Also the head of shutdown() (which calls stop() when initialized_) and of
\* initialize() on an initialized engine (which calls shutdown()).
CtlStopBegin ==
    /\ Alive
    /\ ctl_pc = "idle"
    /\ \/ ctl_op' = "stop" /\ ctl_arg' = DefaultConfig
       \/ initialized_ /\ ctl_op' = "shutdown" /\ ctl_arg' = DefaultConfig
       \/ initialized_ /\ ctl_op' = "initialize" /\ ctl_arg' \in Configs
    /\ playing_' = FALSE
    /\ ctl_pc' = "stop_lock"
    /\ UNCHANGED << initialized_, should_stop_, config_, current_metrics_,
                    metrics_mutex_, visualization_callback_, audio_thread_,
                    crashed, ghostVars, serverVars, restVars >>

\* stop(): lock_guard; spectrum_data.assign(32, 0.0f); is_playing = false;
CtlStopLock ==
    /\ Alive
    /\ ctl_pc = "stop_lock"
    /\ metrics_mutex_ = "free"
    /\ current_metrics_' = [current_metrics_ EXCEPT !.spectrum_data = ZeroSpectrum,
                                                    !.is_playing = FALSE]
    /\ BecameInactive
    /\ IF ctl_op = "stop"
         THEN Returned
         ELSE ctl_pc' = "set_should_stop" /\ UNCHANGED << ctl_op, ctl_arg >>
    /\ UNCHANGED << initialized_, playing_, should_stop_, config_,
                    metrics_mutex_, visualization_callback_, audio_thread_,
                    crashed, config_set, got_partial, tick_wrote, serverVars,
                    restVars >>

\* shutdown() on an engine that is not initialized: if (!initialized_) return;
CtlShutdownNoop ==
    /\ Alive
    /\ ctl_pc = "idle"
    /\ ~initialized_
    /\ Returned
    /\ UNCHANGED << initialized_, playing_, should_stop_, config_,
                    current_metrics_, metrics_mutex_, visualization_callback_,
                    audio_thread_, crashed, ghostVars, serverVars, restVars >>

\* shutdown(): should_stop_ = true;
CtlSetShouldStop ==
    /\ Alive
    /\ ctl_pc = "set_should_stop"
    /\ should_stop_' = TRUE
    /\ ctl_pc' = "join"
    /\ UNCHANGED << initialized_, playing_, config_, current_metrics_,
                    metrics_mutex_, visualization_callback_, audio_thread_,
                    ctl_op, ctl_arg, crashed, ghostVars, serverVars,
                    restVars >>

\* shutdown(): audio_thread_->join(); audio_thread_.reset(); initialized_ = false;
\* join() returns once audioThreadFunction has returned.
CtlJoin ==
    /\ Alive
    /\ ctl_pc = "join"
    /\ audio_thread_ = "done"
    /\ audio_thread_' = "none"
    /\ initialized_' = FALSE
    /\ IF ctl_op = "shutdown"
         THEN Returned
         ELSE ctl_pc' = "init_config" /\ UNCHANGED << ctl_op, ctl_arg >>
    /\ UNCHANGED << playing_, should_stop_, config_, current_metrics_,
                    metrics_mutex_, visualization_callback_, crashed,
                    ghostVars, serverVars, restVars >>

\* initialize(config) on an engine that is not initialized: the call starts here.
CtlInitializeBegin ==
    /\ Alive
    /\ ctl_pc = "idle"
    /\ ~initialized_
    /\ ctl_op' = "initialize"
    /\ ctl_arg' \in Configs
    /\ ctl_pc' = "init_config"
    /\ UNCHANGED << initialized_, playing_, should_stop_, config_,
                    current_metrics_, metrics_mutex_, visualization_callback_,
                    audio_thread_, crashed, ghostVars, serverVars, restVars >>

\* initialize(): config_ = config; audio_buffer_ is filled by generateDefaultAudio
CtlInitConfig ==
    /\ Alive
    /\ ctl_pc = "init_config"
    /\ config_' = ctl_arg
    /\ ctl_pc' = "init_latency"
    /\ UNCHANGED << initialized_, playing_, should_stop_, current_metrics_,
                    metrics_mutex_, visualization_callback_, audio_thread_,
                    ctl_op, ctl_arg, crashed, ghostVars, serverVars,
                    restVars >>

\* initialize(): calculateLatency();
CtlInitLatency ==
    /\ Alive
    /\ ctl_pc = "init_latency"
    /\ metrics_mutex_ = "free"
    /\ current_metrics_' = calculateLatency(current_metrics_, config_)
    /\ ctl_pc' = "init_thread"
    /\ UNCHANGED << initialized_, playing_, should_stop_, config_,
                    metrics_mutex_, visualization_callback_, audio_thread_,
                    ctl_op, ctl_arg, crashed, ghostVars, serverVars,
                    restVars >>

\* initialize(): should_stop_ = false; audio_thread_ = make_unique<std::thread>(..);
\* initialized_ = true; return true;
CtlInitThread ==
    /\ Alive
    /\ ctl_pc = "init_thread"
    /\ should_stop_' = FALSE
    /\ audio_thread_' = "check"
    /\ initialized_' = TRUE
    /\ config_set' = FALSE
    /\ Returned
    /\ UNCHANGED << playing_, config_, current_metrics_, metrics_mutex_,
                    visualization_callback_, crashed, got_partial, tick_wrote,
                    quiet, tick_counts, serverVars, restVars >>

\* setConfig(config): if (!initialized_) return false; config_ = config;
\* if (needs_restart) calculateLatency(); return true;
CtlSetConfig ==
    /\ Alive
    /\ ctl_pc = "idle"
    /\ \E config \in Configs :
          IF ~initialized_
            THEN /\ Returned
                 /\ UNCHANGED << config_, config_set >>
            ELSE /\ config_' = config
                 /\ IF needs_restart(config, config_)
                      THEN /\ ctl_pc' = "set_latency"
                           /\ ctl_op' = "setConfig"
                           /\ UNCHANGED << ctl_arg, config_set >>
                      ELSE Returned /\ config_set' = TRUE
    /\ UNCHANGED << initialized_, playing_, should_stop_, current_metrics_,
                    metrics_mutex_, visualization_callback_, audio_thread_,
                    crashed, got_partial, tick_wrote, quiet, tick_counts,
                    serverVars, restVars >>

\* setConfig(): calculateLatency();
CtlSetLatency ==
    /\ Alive
    /\ ctl_pc = "set_latency"
    /\ metrics_mutex_ = "free"
    /\ current_metrics_' = calculateLatency(current_metrics_, config_)
    /\ config_set' = TRUE
    /\ Returned
    /\ UNCHANGED << initialized_, playing_, should_stop_, config_,
                    metrics_mutex_, visualization_callback_, audio_thread_,
                    crashed, got_partial, tick_wrote, quiet, tick_counts,
                    serverVars, restVars >>

\* setVisualizationCallback(callback): visualization_callback_ = callback;
\* The member is not synchronised: replacing it while the audio thread is
\* inside the callback destroys the callable that is executing, which is
\* undefined behaviour (it keeps running, or the process is terminated).
CtlSetVisualizationCallback ==
    /\ Alive
    /\ ctl_pc = "idle"
    /\ visualization_callback_' \in {"plain", "getMetrics", "stop", "none"}
    /\ visualization_callback_' # visualization_callback_
    /\ IF CallbackRunning THEN crashed' \in BOOLEAN ELSE crashed' = FALSE
    /\ Returned
    /\ UNCHANGED << initialized_, playing_, should_stop_, config_,
                    current_metrics_, metrics_mutex_, audio_thread_,
                    ghostVars, serverVars, restVars >>

Controller ==
    CtlPlay \/ CtlPause \/ CtlStopBegin \/ CtlStopLock \/ CtlShutdownNoop
        \/ CtlSetShouldStop \/ CtlJoin \/ CtlInitializeBegin \/ CtlInitConfig
        \/ CtlInitLatency \/ CtlInitThread \/ CtlSetConfig \/ CtlSetLatency
        \/ CtlSetVisualizationCallback

\* --------------------------------------------------------- observer

\* getMetrics(): lock_guard; return current_metrics_;  (a copy, kept by the
\* caller; the model keeps of it whether it was taken inside a tick)
getMetrics == current_metrics_

ObserverGetMetrics ==
    /\ Alive
    /\ metrics_mutex_ = "free"
    /\ got_partial' = tick_wrote
    /\ UNCHANGED << initialized_, playing_, should_stop_, config_,
                    current_metrics_, metrics_mutex_, visualization_callback_,
                    audio_thread_, ctlVars, crashed, config_set, tick_wrote,
                    quiet, tick_counts, serverVars, restVars >>

EngineNext == AudioThread \/ Controller \/ ObserverGetMetrics

\* ========================================================= WebServer
\* The POSIX build (closesocket is close, SOCKET is int).  start() passes
\* listen() a backlog of 10, more than MaxClients, so the queue never fills.

Clients == 1..MaxClients

\* The client whose handler may stay in recv() or send() for ever.
SlowClient == 1

ServerInit ==
    /\ running_ = FALSE
    /\ listen_socket = "none"
    /\ accept_loop = "none"
    /\ conn = [c \in Clients |-> "new"]
    /\ backlog = << >>
    /\ responded = {}
    /\ stop_calls = 0
    /\ late = {}
    /\ behind_slow = {}
    /\ open_sockets = 0
    /\ closes = [c \in Clients |-> 0]
    /\ in_flight = {}

\* Faulty variant: start() sets running_ before bind() and listen(), and
\* leaves it set when one of them fails.
startSetsRunningFirst(ret) ==
    /\ Alive
    /\ stop_calls' = 0
    /\ \/ /\ running_
          /\ ret = TRUE
          /\ UNCHANGED << running_, listen_socket, accept_loop, open_sockets >>
       \/ /\ ~running_
          /\ \E failing \in {"socket", "bind", "listen"} :
                running_' = (failing # "socket")
          /\ ret = FALSE
          /\ UNCHANGED << listen_socket, accept_loop, open_sockets >>
       \/ /\ ~running_
          /\ listen_socket # "open"
          /\ running_' = TRUE
          /\ listen_socket' = "open"
          /\ accept_loop' = "check"
          /\ open_sockets' = open_sockets + 1
          /\ ret = TRUE
    /\ UNCHANGED << conn, backlog, responded, late, behind_slow, closes,
                    in_flight, engineVars, routerVars, managerVars >>

\* start(): if (running_) return true; when socket() fails: return false;
\* when bind() or listen() fails: closesocket, return false; otherwise
\* running_ = true and the server thread is started with the socket.
\* bind() fails while an earlier server_socket of this process still listens
\* on the port; any of the three calls may fail for outside reasons.
start(ret) ==
    /\ Alive
    /\ stop_calls' = 0
    /\ \/ /\ running_
          /\ ret = TRUE
          /\ UNCHANGED << running_, listen_socket, accept_loop, open_sockets >>
       \/ /\ ~running_
          /\ \E failing \in {"socket", "bind", "listen"} :
                LET created == IF failing = "socket" THEN 0 ELSE 1
                    closed  == IF failing = "socket" THEN 0 ELSE 1
                IN  open_sockets' = open_sockets + created - closed
          /\ ret = FALSE
          /\ UNCHANGED << running_, listen_socket, accept_loop >>
       \/ /\ ~running_
          /\ listen_socket # "open"
          /\ running_' = TRUE
          /\ listen_socket' = "open"
          /\ accept_loop' = "check"
          /\ open_sockets' = open_sockets + 1
          /\ ret = TRUE
    /\ UNCHANGED << conn, backlog, responded, late, behind_slow, closes,
                    in_flight, engineVars, routerVars, managerVars >>

\* start() called by any owner of the server other than main().
WebStart == \E ret \in BOOLEAN : start(ret) /\ UNCHANGED mainVars

\* The clients whose handler has not sent its response yet.
InFlight == {c \in Clients : conn[c] \in {"accepted", "received"}}

\* Faulty variant: stop() flips the flag instead of clearing it.
WebStopToggles ==
    /\ Alive
    /\ running_' = ~running_
    /\ stop_calls' = Min(stop_calls + 1, MaxStopCalls)
    /\ in_flight' = in_flight \cup InFlight
    /\ UNCHANGED << listen_socket, accept_loop, conn, backlog, responded,
                    late, behind_slow, open_sockets, closes, engineVars,
                    restVars >>

\* Faulty variant: stop() shuts the sockets of the connections being
\* handled, so that their handlers' recv() and send() fail.
WebStopShutsConnections ==
    /\ Alive
    /\ running_' = FALSE
    /\ stop_calls' = Min(stop_calls + 1, MaxStopCalls)
    /\ in_flight' = in_flight \cup InFlight
    /\ conn' = [c \in Clients |-> IF c \in InFlight THEN "failed" ELSE conn[c]]
    /\ UNCHANGED << listen_socket, accept_loop, backlog, responded,
                    late, behind_slow, open_sockets, closes, engineVars,
                    restVars >>

\* stop(): running_ = false;
WebStop ==
    /\ Alive
    /\ running_' = FALSE
    /\ stop_calls' = Min(stop_calls + 1, MaxStopCalls)
    /\ in_flight' = in_flight \cup InFlight
    /\ UNCHANGED << listen_socket, accept_loop, conn, backlog, responded,
                    late, behind_slow, open_sockets, closes, engineVars,
                    restVars >>

\* server thread: while (running_) { ... } closesocket(server_socket);
\* Closing the listening socket resets the connections still queued on it.
AcceptLoopCheck ==
    /\ Alive
    /\ accept_loop = "check"
    /\ IF running_
         THEN /\ accept_loop' = "accept"
              /\ UNCHANGED << listen_socket, conn, backlog, open_sockets >>
         ELSE /\ accept_loop' = "done"
              /\ listen_socket' = "closed"
              /\ open_sockets' = open_sockets - 1
              /\ conn' = [c \in Clients |->
                             IF conn[c] = "queued" THEN "reset" ELSE conn[c]]
              /\ backlog' = << >>
    /\ UNCHANGED << running_, responded, stop_calls, late, behind_slow, closes,
                    in_flight, engineVars, restVars >>

\* A handler is between accept() and closesocket(client_socket).
HandlerActive(c) == conn[c] \in {"accepted", "received", "failed", "sent"}

\* Faulty variant: the server thread calls handleClient itself, so it is back
\* in accept() only when the connection before has been closed.
AcceptReturnInline ==
    /\ Alive
    /\ accept_loop = "accept"
    /\ backlog # << >>
    /\ \A c \in Clients : ~HandlerActive(c)
    /\ conn' = [conn EXCEPT ![Head(backlog)] = "accepted"]
    /\ backlog' = Tail(backlog)
    /\ behind_slow' = IF conn[SlowClient] \in {"accepted", "received"}
                         THEN behind_slow \cup {Head(backlog)}
                         ELSE behind_slow
    /\ accept_loop' = "check"
    /\ UNCHANGED << running_, listen_socket, responded, stop_calls, late,
                    open_sockets, closes, in_flight, engineVars, restVars >>

\* accept() returns a client socket;
\* std::thread([..]{ handleClient; closesocket }).detach();
AcceptReturn ==
    /\ Alive
    /\ accept_loop = "accept"
    /\ backlog # << >>
    /\ conn' = [conn EXCEPT ![Head(backlog)] = "accepted"]
    /\ backlog' = Tail(backlog)
    /\ behind_slow' = IF conn[SlowClient] \in {"accepted", "received"}
                         THEN behind_slow \cup {Head(backlog)}
                         ELSE behind_slow
    /\ accept_loop' = "check"
    /\ UNCHANGED << running_, listen_socket, responded, stop_calls, late,
                    open_sockets, closes, in_flight, engineVars, restVars >>

\* accept() returns INVALID_SOCKET: (log if running_) continue;
AcceptFail ==
    /\ Alive
    /\ accept_loop = "accept"
    /\ accept_loop' = "check"
    /\ UNCHANGED << running_, listen_socket, conn, backlog, responded,
                    stop_calls, late, behind_slow, open_sockets, closes,
                    in_flight, engineVars, restVars >>

\* A client connects: the kernel completes the handshake on a listening
\* socket whether or not the server thread is inside accept().
ClientConnect(c) ==
    /\ Alive
    /\ conn[c] = "new"
    /\ IF listen_socket = "open"
         THEN /\ conn' = [conn EXCEPT ![c] = "queued"]
              /\ backlog' = Append(backlog, c)
              /\ late' = IF running_ THEN late ELSE late \cup {c}
         ELSE /\ conn' = [conn EXCEPT ![c] = "refused"]
              /\ UNCHANGED << backlog, late >>
    /\ UNCHANGED << running_, listen_socket, accept_loop, responded,
                    stop_calls, behind_slow, open_sockets, closes,
                    in_flight, engineVars, restVars >>

\* Faulty variant: handleClient closes the socket itself when recv() fails,
\* and the handler thread closes it again.
HandlerRecvClosesOnFailure(c) ==
    /\ Alive
    /\ conn[c] = "accepted"
    /\ \/ /\ conn' = [conn EXCEPT ![c] = "failed"]
          /\ closes' = [closes EXCEPT ![c] = @ + 1]
       \/ /\ conn' = [conn EXCEPT ![c] = "received"]
          /\ UNCHANGED closes
    /\ UNCHANGED << running_, listen_socket, accept_loop, backlog, responded,
                    stop_calls, late, behind_slow, open_sockets, in_flight,
                    engineVars, restVars >>

\* handleClient: recv(); if (bytes_received <= 0) return;
HandlerRecv(c) ==
    /\ Alive
    /\ conn[c] = "accepted"
    /\ \/ conn' = [conn EXCEPT ![c] = "failed"]
       \/ conn' = [conn EXCEPT ![c] = "received"]
    /\ UNCHANGED << running_, listen_socket, accept_loop, backlog, responded,
                    stop_calls, late, behind_slow, open_sockets, closes,
                    in_flight, engineVars, restVars >>

\* handleClient: response = handleRequest(..); send(client_socket, response ..);
HandlerSend(c) ==
    /\ Alive
    /\ conn[c] = "received"
    /\ conn' = [conn EXCEPT ![c] = "sent"]
    /\ responded' = responded \cup {c}
    /\ UNCHANGED << running_, listen_socket, accept_loop, backlog, stop_calls,
                    late, behind_slow, open_sockets, closes,
                    in_flight, engineVars, restVars >>

\* handler thread: closesocket(client_socket);
HandlerClose(c) ==
    /\ Alive
    /\ conn[c] \in {"failed", "sent"}
    /\ conn' = [conn EXCEPT ![c] = "closed"]
    /\ closes' = [closes EXCEPT ![c] = @ + 1]
    /\ in_flight' = in_flight \ {c}
    /\ UNCHANGED << running_, listen_socket, accept_loop, backlog, responded,
                    stop_calls, late, behind_slow, open_sockets, engineVars,
                    restVars >>

AcceptLoop == AcceptLoopCheck \/ AcceptReturn

Handlers == \E c \in Clients : HandlerRecv(c) \/ HandlerSend(c) \/ HandlerClose(c)

ServerNext ==
    \/ WebStart
    \/ WebStop
    \/ AcceptLoop
    \/ AcceptFail
    \/ \E c \in Clients : ClientConnect(c)
    \/ Handlers

\* ============================================== WebServer: dispatcher
\* A std::string is a sequence of tokens; a token stands for the characters
\* between its quotes, and no two sequences of tokens of the model spell the
\* same characters, so that equality of sequences is equality of strings.
\* The characters the code looks for (' ', "\r\n", '?', '&', '=', '/') are
\* tokens of their own; the tokens "..", ".html", ".js" and ".txt" are the only
\* ones that hold a '.'.

CRLF == "\r\n"

\* s.find(t): the first position of token t in s, 0 for npos (positions
\* count from 1).
find(s, t) ==
    IF \E i \in 1..Len(s) : s[i] = t
      THEN CHOOSE i \in 1..Len(s) : s[i] = t /\ \A j \in 1..(i - 1) : s[j] # t
      ELSE 0

\* Faulty variant: the last position of pat in s.
rfindString(s, pat) ==
    LET at(i) == i + Len(pat) - 1 <= Len(s) /\ SubSeq(s, i, i + Len(pat) - 1) = pat
    IN  IF \E i \in 1..Len(s) : at(i)
          THEN CHOOSE i \in 1..Len(s) : at(i) /\ \A j \in (i + 1)..Len(s) : ~at(j)
          ELSE 0

\* s.find(pat) for a string pat.
findString(s, pat) ==
    LET at(i) == i + Len(pat) - 1 <= Len(s) /\ SubSeq(s, i, i + Len(pat) - 1) = pat
    IN  IF \E i \in 1..Len(s) : at(i)
          THEN CHOOSE i \in 1..Len(s) : at(i) /\ \A j \in 1..(i - 1) : ~at(j)
          ELSE 0

\* s.substr(pos), positions counting from 1.
substr(s, pos) == SubSeq(s, pos, Len(s))

\* operator<<(int): the decimal digits of n >= 0.
Digit(d) ==
    CASE d = 0 -> "0" [] d = 1 -> "1" [] d = 2 -> "2" [] d = 3 -> "3"
      [] d = 4 -> "4" [] d = 5 -> "5" [] d = 6 -> "6" [] d = 7 -> "7"
      [] d = 8 -> "8" [] d = 9 -> "9"

RECURSIVE to_string(_)
to_string(n) == IF n < 10 THEN << Digit(n) >>
               ELSE to_string(n \div 10) \o << Digit(n % 10) >>

\* ------------------------------------------------- request parsing
\* request_stream >> word: skip the white space, read up to the next one.
IsSpace(t) == t \in {" ", CRLF}

ReadWord(s) ==
    LET starts == {i \in 1..Len(s) : ~IsSpace(s[i])}
        from   == IF starts = {} THEN Len(s) + 1
                  ELSE CHOOSE i \in starts : \A j \in starts : i <= j
        ends   == {i \in from..Len(s) : IsSpace(s[i])}
        to     == IF ends = {} THEN Len(s) + 1
                  ELSE CHOOSE i \in ends : \A j \in ends : i <= j
    IN  [word |-> SubSeq(s, from, to - 1), rest |-> SubSeq(s, to, Len(s))]

\* The longest prefix of s without '&' and '='.
Run(s) ==
    LET seps == {i \in 1..Len(s) : s[i] \in {"&", "="}}
    IN  IF seps = {} THEN s
        ELSE SubSeq(s, 1, (CHOOSE i \in seps : \A j \in seps : i <= j) - 1)

\* The matches of ([^&=]+)=([^&=]*) in the query, from left to right;
\* params[key] = value: the last value of a key wins.
RECURSIVE ParseQuery(_, _)
ParseQuery(query, params) ==
    IF query = << >> THEN params
    ELSE LET key  == Run(query)
             rest == substr(query, Len(key) + 1)
         IN  IF key = << >> THEN ParseQuery(Tail(query), params)
             ELSE IF rest # << >> /\ Head(rest) = "="
               THEN LET value == Run(Tail(rest))
                    IN  ParseQuery(substr(Tail(rest), Len(value) + 1),
                                   {p \in params : p[1] # key}
                                      \cup {<< key, value >>})
               ELSE ParseQuery(rest, params)

\* Faulty variant: the query stays in the path.
ParseRequestKeepsQuery(raw) ==
    LET first  == ReadWord(raw)
        second == ReadWord(first.rest)
    IN  [method |-> first.word, path |-> second.word,
         params |-> ParseQuery(substr(second.word, find(second.word, "?") + 1), {})]

\* handleClient, from the received bytes to handleRequest's arguments.
ParseRequest(raw) ==
    LET first     == ReadWord(raw)
        second    == ReadWord(first.rest)
        method    == first.word
        target    == second.word
        query_pos == find(target, "?")
    IN  IF query_pos # 0
          THEN [method |-> method,
                path   |-> SubSeq(target, 1, query_pos - 1),
                params |-> ParseQuery(substr(target, query_pos + 1), {})]
          ELSE [method |-> method, path |-> target, params |-> {}]

\* ------------------------------------------------------ API handlers
\* What the collaborators answer is the handler's argument: the device list
\* of getDevices(), the AudioConfig of getAudioConfig(), isInitialized().

deviceTypeToString(type) == type

deviceStatusToString(status) == status

\* createMockDevice / populateDefaultDevices: the device table as constructed.
populateDefaultDevices ==
    << [id |-> 1, name |-> "Generic HD Audio Device (WDM)", type |-> "WDM",
        status |-> "Active"],
       [id |-> 2, name |-> "Realtek ASIO (KS)", type |-> "KS",
        status |-> "Disabled"],
       [id |-> 3, name |-> "NVIDIA Broadcast (WASAPI)", type |-> "WASAPI",
        status |-> "Inactive"],
       [id |-> 4, name |-> "Focusrite USB ASIO (WDM)", type |-> "WDM",
        status |-> "Inactive"] >>

DeviceJson(device) ==
    << "{\"id\": " >> \o to_string(device.id)
       \o << ", \"name\": \"", device.name, "\"",
             ", \"type\": \"", deviceTypeToString(device.type), "\"",
             ", \"status\": \"", deviceStatusToString(device.status), "\"",
             "}" >>

RECURSIVE DevicesJson(_, _)
DevicesJson(devices, i) ==
    IF i > Len(devices) THEN << >>
    ELSE (IF i > 1 THEN << "," >> ELSE << >>)
            \o DeviceJson(devices[i]) \o DevicesJson(devices, i + 1)

\* Faulty variant: the device manager is used without the null check.
handleDevicesAPIUnchecked(world) ==
    [body  |-> << "{\"devices\": [" >> \o DevicesJson(world.devices, 1)
                  \o << "]}" >>,
     deref |-> {"device_manager"}]

handleDevicesAPI(world) ==
    IF ~device_manager_
      THEN [body  |-> << "{\"error\": \"", "Device manager not available", "\"}" >>,
            deref |-> {}]
      ELSE [body  |-> << "{\"devices\": [" >> \o DevicesJson(world.devices, 1)
                         \o << "]}" >>,
            deref |-> {"device_manager"}]

handleConfigAPI(world) ==
    IF ~config_manager_
      THEN [body  |-> << "{\"error\": \"", "Config manager not available", "\"}" >>,
            deref |-> {}]
      ELSE [body  |-> << "{\"config\": {", "\"sample_rate\": " >>
                         \o to_string(world.config.sample_rate)
                         \o << ", \"buffer_size\": " >>
                         \o to_string(world.config.buffer_size)
                         \o << ", \"bit_depth\": " >>
                         \o to_string(world.config.bit_depth)
                         \o << ", \"channels\": " >>
                         \o to_string(world.config.channels)
                         \o << "}}" >>,
            deref |-> {"config_manager"}]

OnlineOrOffline(online) == IF online THEN "online" ELSE "offline"

handleStatusAPI(world) ==
    [body  |-> << "{\"status\": {", "\"server\": \"online\"",
                  ", \"audio_engine\": \"",
                  OnlineOrOffline(audio_engine_ /\ world.initialized), "\"",
                  ", \"device_manager\": \"",
                  OnlineOrOffline(device_manager_), "\"",
                  ", \"config_manager\": \"",
                  OnlineOrOffline(config_manager_), "\"",
                  "}}" >>,
     deref |-> IF audio_engine_ THEN {"audio_engine"} ELSE {}]

handleAudioAPI(world) ==
    IF ~audio_engine_
      THEN [body  |-> << "{\"error\": \"", "Audio engine not available", "\"}" >>,
            deref |-> {}]
      ELSE [body  |-> << "{\"result\": \"success\", \"message\": \"Audio command processed\"}" >>,
            deref |-> {}]

\* route.handler(params): the four handlers setupRoutes binds, and the
\* handler a caller of addRoute passes (it answers a fixed JSON text).
CallHandler(handler, params, world) ==
    CASE handler = "handleDevicesAPI" -> handleDevicesAPI(world)
      [] handler = "handleConfigAPI"  -> handleConfigAPI(world)
      [] handler = "handleStatusAPI"  -> handleStatusAPI(world)
      [] handler = "handleAudioAPI"   -> handleAudioAPI(world)
      [] OTHER -> [body |-> << "{\"added\": true}" >>, deref |-> {}]

\* ------------------------------------------------------ static files
\* The components of a path: the strings between its '/' characters.
RECURSIVE Split(_, _)
Split(path, component) ==
    IF path = << >> THEN << component >>
    ELSE IF Head(path) = "/"
      THEN << component >> \o Split(Tail(path), << >>)
      ELSE Split(Tail(path), Append(component, Head(path)))

\* Path resolution by the operating system: empty components and "." are
\* skipped, ".." steps to the parent (the root is its own parent).
RECURSIVE Resolve(_, _)
Resolve(components, location) ==
    IF components = << >> THEN location
    ELSE LET c == Head(components)
         IN  IF c = << >> \/ c = << "." >>
               THEN Resolve(Tail(components), location)
             ELSE IF c = << ".." >>
               THEN IF Len(location) > 1 /\ location[Len(location)] # << ".." >>
                      THEN Resolve(Tail(components),
                                   SubSeq(location, 1, Len(location) - 1))
                    ELSE IF location[1] = << "/" >>
                      THEN Resolve(Tail(components), location)
                      ELSE Resolve(Tail(components), Append(location, c))
             ELSE Resolve(Tail(components), Append(location, c))

\* Where a path names a file: from the root for an absolute path, from the
\* working directory (<< "." >>) otherwise.
Locate(full_path) ==
    IF full_path # << >> /\ Head(full_path) = "/"
      THEN Resolve(Split(full_path, << >>), << << "/" >> >>)
      ELSE Resolve(Split(full_path, << >>), << << "." >> >>)

\* serveStaticFile: the content of static_directory_ + path, "" when no file
\* is open.
serveStaticFile(path) ==
    LET full_path == static_directory_ \o path
        location  == Locate(full_path)
    IN  IF location \in DOMAIN files THEN files[location] ELSE << >>

\* getContentType: by what follows the last '.' of the path.
getContentType(path) ==
    LET dots    == {i \in 1..Len(path) : path[i] \in {"..", ".html", ".js", ".txt"}}
        dot_pos == IF dots = {} THEN 0
                   ELSE CHOOSE i \in dots : \A j \in dots : j <= i
        extension == IF dot_pos = 0 THEN << >>
                     ELSE IF path[dot_pos] = ".."
                       THEN << "." >> \o substr(path, dot_pos + 1)
                       ELSE substr(path, dot_pos)
    IN  CASE dot_pos = 0 -> "text/plain"
          [] extension = << ".html" >> -> "text/html"
          [] extension = << ".css" >>  -> "text/css"
          [] extension = << ".js" >>   -> "application/javascript"
          [] extension = << ".json" >> -> "application/json"
          [] extension = << ".png" >>  -> "image/png"
          [] extension \in {<< ".jpg" >>, << ".jpeg" >>} -> "image/jpeg"
          [] extension = << ".gif" >>  -> "image/gif"
          [] extension = << ".svg" >>  -> "image/svg+xml"
          [] extension = << ".ico" >>  -> "image/x-icon"
          [] extension = << ".wav" >>  -> "audio/wav"
          [] extension = << ".mp3" >>  -> "audio/mpeg"
          [] OTHER -> "text/plain"

\* ----------------------------------------------------------- responses
cors_headers ==
    << "Access-Control-Allow-Origin: *", CRLF,
       "Access-Control-Allow-Methods: GET, POST, PUT, DELETE, OPTIONS", CRLF,
       "Access-Control-Allow-Headers: Content-Type, Authorization", CRLF >>

\* addCORSHeaders: response.substr(0, header_end) + "\r\n" + cors_headers +
\* response.substr(header_end), header_end being the first "\r\n\r\n".
addCORSHeaders(resp) ==
    LET header_end == findString(resp, << CRLF, CRLF >>)
    IN  IF header_end # 0
          THEN SubSeq(resp, 1, header_end - 1) \o << CRLF >> \o cors_headers
                  \o substr(resp, header_end)
          ELSE resp

Ok(content_type, body) ==
    << "HTTP/1.1 200 OK", CRLF, "Content-Type: ", content_type, CRLF, CRLF >>
       \o body

\* Faulty variant: a route matches when its path begins the request's.
RouteMatchesPrefix(route, method, path) ==
    /\ route.method = method
    /\ Len(route.path) <= Len(path)
    /\ SubSeq(path, 1, Len(route.path)) = route.path

\* route.method == method && route.path == path
RouteMatches(route, method, path) ==
    route.method = method /\ route.path = path

\* Faulty variant: the last route that matches is the one invoked.
LastMatch(method, path) ==
    LET hits == {i \in 1..Len(routes_) : RouteMatches(routes_[i], method, path)}
    IN  IF hits = {} THEN 0 ELSE CHOOSE i \in hits : \A j \in hits : j <= i

\* for (const auto& route : routes_) if (..) return ..: the first route that
\* matches, 0 when the loop ends without one.
FirstMatch(method, path) ==
    LET hits == {i \in 1..Len(routes_) : RouteMatches(routes_[i], method, path)}
    IN  IF hits = {} THEN 0 ELSE CHOOSE i \in hits : \A j \in hits : i <= j

\* Faulty variant: the static files are tried for every method.
TriesStaticFileAlways(method) == TRUE

\* if (method == "GET")
TriesStaticFile(method) == method = << "GET" >>

\* handleRequest.  Besides the response it reports what it did: the routes
\* whose handler it called, the paths it passed to serveStaticFile and the
\* collaborators it dereferenced.
handleRequest(method, path, params, world) ==
    LET hit       == FirstMatch(method, path)
        file_path == IF path = << "/" >> THEN << "/", "index", ".html" >> ELSE path
        content   == serveStaticFile(file_path)
    IN  IF hit # 0
          THEN LET answer == CallHandler(routes_[hit].handler, params, world)
               IN  [response |-> addCORSHeaders(Ok("application/json", answer.body)),
                    invoked  |-> << hit >>,
                    opened   |-> << >>,
                    deref    |-> answer.deref]
        ELSE IF TriesStaticFile(method) /\ content # << >>
          THEN [response |-> addCORSHeaders(Ok(getContentType(file_path), content)),
                invoked  |-> << >>,
                opened   |-> << file_path >>,
                deref    |-> {}]
        ELSE [response |-> addCORSHeaders(
                  << "HTTP/1.1 404 Not Found", CRLF,
                     "Content-Type: ", "text/html", CRLF, CRLF,
                     "<h1>404 Not Found</h1>" >>),
              invoked  |-> << >>,
              opened   |-> IF TriesStaticFile(method) THEN << file_path >> ELSE << >>,
              deref    |-> {}]

\* handleClient once recv() has given the request: parse, dispatch.
handleClient(raw, world) ==
    LET parsed == ParseRequest(raw)
    IN  handleRequest(parsed.method, parsed.path, parsed.params, world)

\* ------------------------------------------------------- route table
ApiDevices == << "/", "api", "/", "devices" >>

\* setupRoutes: the four routes the constructor registers, in this order.
setupRoutes ==
    << [method |-> << "GET" >>, path |-> ApiDevices,
        handler |-> "handleDevicesAPI"],
       [method |-> << "GET" >>, path |-> << "/", "api", "/", "config" >>,
        handler |-> "handleConfigAPI"],
       [method |-> << "GET" >>, path |-> << "/", "api", "/", "status" >>,
        handler |-> "handleStatusAPI"],
       [method |-> << "POST" >>, path |-> << "/", "api", "/", "audio", "/", "play" >>,
        handler |-> "handleAudioAPI"] >>

\* ------------------------------------------------------------- inputs
Methods == { << "GET" >>, << "POST" >>, << "PUT" >>, << "get" >>, << >> }

\* What follows the path in the request target: nothing, or '?' and a query.
Queries ==
    { << >>,
      << "?" >>,
      << "?", "x", "=", "1" >>,
      << "?", "y" >>,
      << "?", "a", "=", "1", "&", "a", "=", "&", "b" >>,
      << "?", "x", "=", "1", "?", "y" >> }

\* The bytes of a request with this method and this target.
RawRequest(method, target) ==
    method \o << " " >> \o target \o << " ", "HTTP/1.1", CRLF, CRLF >>

\* A request as its client means it, and the bytes it sends.
Requests ==
    LET Paths ==
          { << "/" >>,
            ApiDevices,
            << "/", "api", "/", "device" >>,
            << "/", "api" >>,
            << "/", "api", "/", "devices", "/" >>,
            << "/", "api", "/", "config" >>,
            << "/", "api", "/", "status" >>,
            << "/", "api", "/", "audio", "/", "play" >>,
            << "/", "index", ".html" >>,
            << "/", "app", ".js" >>,
            << "/", "..", "/", "secret", ".txt" >>,
            << "/", "missing" >> }
    IN
    { [method |-> m, path |-> p, query |-> q, raw |-> RawRequest(m, p \o q)] :
        m \in Methods, p \in Paths, q \in Queries }
    \cup
    { [method |-> << >>, path |-> << >>, query |-> << >>, raw |-> << CRLF >>],
      [method |-> << "GET" >>, path |-> << >>, query |-> << >>,
       raw |-> << "GET" >>] }

NoRequest == [method |-> << >>, path |-> << >>, query |-> << >>, raw |-> << >>]

NoneHandled == [invoked |-> << >>, opened |-> << >>, deref |-> {}]

\* What the collaborators answer while a request is handled: the device
\* table, the stored configuration, whether the engine is initialized.
Worlds ==
    { [devices |-> populateDefaultDevices, config |-> DefaultConfig,
       initialized |-> FALSE],
      [devices |-> populateDefaultDevices,
       config |-> [DefaultConfig EXCEPT !.sample_rate = 44100],
       initialized |-> TRUE] }

\* The files of the machine: none; a site under static/ (an index.html with a
\* blank line in it, a script, a file at the path of a route) beside a file
\* outside static/; a site whose index.html is empty.
StaticRoot == << "static" >>

InStatic(name) == << << "." >>, StaticRoot >> \o name

NoFiles == [location \in {} |-> << >>]

SiteFiles ==
    (InStatic(<< << "index", ".html" >> >>)
        :> << "<html>", CRLF, CRLF, "</html>" >>)
    @@ (InStatic(<< << "app", ".js" >> >>) :> << "js" >>)
    @@ (InStatic(<< << "api" >>, << "devices" >> >>) :> << "file" >>)
    @@ (<< << "." >>, << "secret", ".txt" >> >> :> << "secret" >>)

\* ------------------------------------------------------------ actions
RouterInit ==
    /\ routes_ = setupRoutes
    /\ static_directory_ = << >>
    /\ audio_engine_ = FALSE
    /\ device_manager_ = FALSE
    /\ config_manager_ = FALSE
    /\ files = NoFiles
    /\ request = NoRequest
    /\ response = << >>
    /\ handled = NoneHandled

Idle == Alive /\ request = NoRequest

notRouterVars == << engineVars, serverVars, mainVars, managerVars >>

\* addRoute: routes_.push_back({method, path, handler});
addRoute(route) ==
    /\ Idle
    /\ Len(routes_) < Len(setupRoutes) + MaxAddedRoutes
    /\ routes_' = Append(routes_, route)
    /\ UNCHANGED << static_directory_, audio_engine_, device_manager_,
                    config_manager_, files, request, response, handled,
                    notRouterVars >>

\* setStaticDirectory: static_directory_ = path;
setStaticDirectory(path) ==
    /\ Idle
    /\ static_directory_' = path
    /\ UNCHANGED << routes_, audio_engine_, device_manager_, config_manager_,
                    files, request, response, handled, notRouterVars >>

\* setAudioEngine, setDeviceManager, setConfigManager: the pointer is stored.
setAudioEngine(engine) ==
    /\ Idle
    /\ audio_engine_' = engine
    /\ UNCHANGED << routes_, static_directory_, device_manager_, config_manager_,
                    files, request, response, handled, notRouterVars >>

setDeviceManager(manager) ==
    /\ Idle
    /\ device_manager_' = manager
    /\ UNCHANGED << routes_, static_directory_, audio_engine_, config_manager_,
                    files, request, response, handled, notRouterVars >>

setConfigManager(manager) ==
    /\ Idle
    /\ config_manager_' = manager
    /\ UNCHANGED << routes_, static_directory_, audio_engine_, device_manager_,
                    files, request, response, handled, notRouterVars >>

\* The files are put in place, changed or removed outside the program.
FilesChange(fs) ==
    /\ Idle
    /\ files' = fs
    /\ UNCHANGED << routes_, static_directory_, audio_engine_, device_manager_,
                    config_manager_, request, response, handled, notRouterVars >>

\* Faulty variant: the handler of POST /api/audio/play starts the playback.
HandleClientPlays(req, world) ==
    /\ Idle
    /\ request' = req
    /\ LET result == handleClient(req.raw, world)
           plays == /\ result.invoked # << >>
                    /\ routes_[result.invoked[1]].handler = "handleAudioAPI"
                    /\ audio_engine_ /\ initialized_
       IN  /\ response' = result.response
           /\ handled' = [invoked |-> result.invoked,
                          opened  |-> result.opened,
                          deref   |-> result.deref]
           /\ playing_' = (plays \/ playing_)
    /\ UNCHANGED << routes_, static_directory_, audio_engine_, device_manager_,
                    config_manager_, files, initialized_, should_stop_,
                    config_, current_metrics_, metrics_mutex_,
                    visualization_callback_, audio_thread_, ctlVars, crashed,
                    ghostVars, serverVars, mainVars, managerVars >>

\* handleClient on an accepted connection whose recv() gave req.raw:
\* response = handleRequest(..); send(..).
HandleClient(req, world) ==
    /\ Idle
    /\ request' = req
    /\ LET result == handleClient(req.raw, world)
       IN  /\ response' = result.response
           /\ handled' = [invoked |-> result.invoked,
                          opened  |-> result.opened,
                          deref   |-> result.deref]
    /\ UNCHANGED << routes_, static_directory_, audio_engine_, device_manager_,
                    config_manager_, files, notRouterVars >>

\* The handler thread closes the socket and ends.
HandlerEnd ==
    /\ Alive
    /\ request # NoRequest
    /\ request' = NoRequest
    /\ response' = << >>
    /\ handled' = NoneHandled
    /\ UNCHANGED << routes_, static_directory_, audio_engine_, device_manager_,
                    config_manager_, files, notRouterVars >>

\* The routes a caller of addRoute registers: one that repeats a route of the
\* constructor, one whose path begins that route's path, one whose path holds
\* a '?'.  The files change to none, to the site's, or to a site whose
\* index.html is empty.
RouterNext ==
    \/ \E route \in
          { [method |-> << "GET" >>, path |-> ApiDevices, handler |-> "added"],
            [method |-> << "GET" >>, path |-> << "/", "api" >>, handler |-> "added"],
            [method |-> << "GET" >>, path |-> << "/", "api", "?", "x", "=", "1" >>,
             handler |-> "added"] } :
          addRoute(route)
    \/ \E path \in {<< >>, StaticRoot} : setStaticDirectory(path)
    \/ \E engine \in BOOLEAN : setAudioEngine(engine)
    \/ \E manager \in BOOLEAN : setDeviceManager(manager)
    \/ \E manager \in BOOLEAN : setConfigManager(manager)
    \/ \E fs \in {NoFiles, SiteFiles,
                   InStatic(<< << "index", ".html" >> >>) :> << >>} :
          FilesChange(fs)
    \/ \E req \in Requests, world \in Worlds : HandleClient(req, world)
    \/ HandlerEnd

\* ============================================================== main
\* main() from the call of start() on (main.cpp:89): the components are
\* constructed and wired, SIGINT and SIGTERM are handled by signalHandler.

MainInit ==
    /\ main_pc = "start"
    /\ start_ret = "none"
    /\ exit_code = -1

\* if (!g_server->start()) ...
MainStart ==
    /\ main_pc = "start"
    /\ \E ret \in BOOLEAN :
          /\ start(ret)
          /\ start_ret' = IF ret THEN "true" ELSE "false"
    /\ main_pc' = "started"
    /\ UNCHANGED exit_code

\* ... { std::cerr << "Failed to start web server"; return 1; }
MainStartFailed ==
    /\ main_pc = "started"
    /\ start_ret = "false"
    /\ main_pc' = "exited"
    /\ exit_code' = 1
    /\ UNCHANGED << start_ret, engineVars, serverVars, routerVars,
                    managerVars >>

\* while (g_server->isRunning()) sleep_for(100ms);  running_ is cleared by
\* signalHandler only, which exits, so the loop is left by no other way.
MainServing ==
    /\ main_pc = "started"
    /\ start_ret = "true"
    /\ main_pc' = "serving"
    /\ UNCHANGED << start_ret, exit_code, engineVars, serverVars, routerVars,
                    managerVars >>

\* signalHandler: if (g_server) g_server->stop(); exit(0);
signalHandler ==
    /\ main_pc \in {"start", "started", "serving"}
    /\ running_' = FALSE
    /\ stop_calls' = Min(stop_calls + 1, MaxStopCalls)
    /\ in_flight' = in_flight \cup InFlight
    /\ main_pc' = "exited"
    /\ exit_code' = 0
    /\ UNCHANGED << listen_socket, accept_loop, conn, backlog, responded,
                    late, behind_slow, open_sockets, start_ret, closes,
                    engineVars, routerVars, managerVars >>

Main == MainStart \/ MainStartFailed \/ MainServing

\* The process as main() runs it; nothing runs once it has exited.
MainNext ==
    /\ exit_code = -1
    /\ \/ Main
       \/ signalHandler
       \/ AcceptLoop
       \/ AcceptFail
       \/ \E c \in Clients : ClientConnect(c)
       \/ Handlers

\* ===================================================== DeviceManager
\* The device manager as its owner calls it, one call at a time.

DeviceIds == 0..MaxDeviceId

\* populateDefaultDevices on an empty status map: for (device : devices_)
\*     device_status_[device.id] = device.status;
PopulatedStatus(devices) ==
    LET ids == {devices[i].id : i \in DOMAIN devices}
        at(id) == CHOOSE i \in DOMAIN devices : devices[i].id = id
    IN  [id \in ids |-> devices[at(id)].status]

\* getDevice: a pointer to a copy of the first device of that id, or nullptr:
\* a sequence of that one device, or of none.
getDevice(devices, id) ==
    IF \E i \in DOMAIN devices : devices[i].id = id
      THEN LET first == CHOOSE i \in DOMAIN devices :
                            /\ devices[i].id = id
                            /\ \A j \in 1..(i - 1) : devices[j].id # id
           IN  << devices[first] >>
      ELSE << >>

\* isDeviceActive: return active_device_id_ == device_id;
isDeviceActive(device_id) == active_device_id_ = device_id

\* getDeviceStatus: the map's entry, Inactive without one.
getDeviceStatus(device_id) ==
    IF device_id \in DOMAIN device_status_
      THEN device_status_[device_id]
      ELSE "Inactive"

\* updateDeviceStatus on a device manager dm = [devices, status]:
\* device_status_[device_id] = status; and the first device of that id in
\* devices_, if there is one, gets the status too.
updateDeviceStatus(dm, device_id, status) ==
    LET found == {i \in DOMAIN dm.devices : dm.devices[i].id = device_id}
        first == CHOOSE i \in found : \A j \in found : i <= j
    IN  [devices |-> IF found = {}
                       THEN dm.devices
                       ELSE [dm.devices EXCEPT ![first].status = status],
         status  |-> [id \in DOMAIN dm.status \cup {device_id} |->
                         IF id = device_id THEN status ELSE dm.status[id]]]

\* The two tables of this device manager.
Tables == [devices |-> devices_, status |-> device_status_]

Called(op, id, ret) == dm_call' = [op |-> op, id |-> id, ret |-> ret]

\* DeviceManager(): initializeSystemAudio(); populateDefaultDevices();
DeviceInit ==
    /\ devices_ = populateDefaultDevices
    /\ device_status_ = PopulatedStatus(populateDefaultDevices)
    /\ active_device_id_ = 1
    /\ dm_call = [op |-> "DeviceManager", id |-> 0, ret |-> "void"]
    /\ status_updates = 0

\* scanDevices: devices_.clear(); device_status_.clear(); scanLinuxDevices()
\* (populateDefaultDevices, which also sets active_device_id_ = 1);
\* return !devices_.empty();
scanDevices ==
    /\ devices_' = populateDefaultDevices
    /\ device_status_' = PopulatedStatus(populateDefaultDevices)
    /\ active_device_id_' = IF populateDefaultDevices # << >> THEN 1
                                                             ELSE active_device_id_
    /\ Called("scanDevices", 0,
              IF populateDefaultDevices # << >> THEN "true" ELSE "false")
    /\ UNCHANGED << status_updates, engineVars, serverVars, mainVars,
                    routerVars, configVars >>

\* Faulty variant: activateDevice does not deactivate the device that was
\* active.
activateDeviceKeepsOld(device_id) ==
    LET device == getDevice(devices_, device_id)
    IN  /\ IF device = << >> \/ device[1].status = "Disabled"
             THEN /\ Called("activateDevice", device_id, "false")
                  /\ UNCHANGED << devices_, device_status_, active_device_id_ >>
             ELSE LET now == updateDeviceStatus(Tables, device_id, "Active")
                  IN  /\ devices_' = now.devices
                      /\ device_status_' = now.status
                      /\ active_device_id_' = device_id
                      /\ Called("activateDevice", device_id, "true")
        /\ UNCHANGED << status_updates, engineVars, serverVars, mainVars,
                        routerVars, configVars >>

\* activateDevice: false for an unknown or a Disabled device; otherwise the
\* active device, if any, becomes Inactive, this one Active and the active id.
activateDevice(device_id) ==
    LET device == getDevice(devices_, device_id)
    IN  /\ IF device = << >> \/ device[1].status = "Disabled"
             THEN /\ Called("activateDevice", device_id, "false")
                  /\ UNCHANGED << devices_, device_status_, active_device_id_ >>
             ELSE LET old == IF active_device_id_ # -1
                               THEN updateDeviceStatus(Tables, active_device_id_,
                                                       "Inactive")
                               ELSE Tables
                      now == updateDeviceStatus(old, device_id, "Active")
                  IN  /\ devices_' = now.devices
                      /\ device_status_' = now.status
                      /\ active_device_id_' = device_id
                      /\ Called("activateDevice", device_id, "true")
        /\ UNCHANGED << status_updates, engineVars, serverVars, mainVars,
                        routerVars, configVars >>

\* deactivateDevice: if (active_device_id_ == device_id) active_device_id_ = -1;
\* updateDeviceStatus(device_id, Inactive); return true;
deactivateDevice(device_id) ==
    LET now == updateDeviceStatus(Tables, device_id, "Inactive")
    IN  /\ active_device_id_' = IF active_device_id_ = device_id
                                  THEN -1 ELSE active_device_id_
        /\ devices_' = now.devices
        /\ device_status_' = now.status
        /\ Called("deactivateDevice", device_id, "true")
        /\ UNCHANGED << status_updates, engineVars, serverVars, mainVars,
                        routerVars, configVars >>

\* updateDeviceStatus, called by the owner of the device manager.
DirectUpdateDeviceStatus(device_id, status) ==
    LET now == updateDeviceStatus(Tables, device_id, status)
    IN  /\ status_updates < MaxStatusUpdates
        /\ status_updates' = status_updates + 1
        /\ devices_' = now.devices
        /\ device_status_' = now.status
        /\ Called("updateDeviceStatus", device_id, "void")
        /\ UNCHANGED << active_device_id_, engineVars, serverVars, mainVars,
                        routerVars, configVars >>

\* setDeviceConfig's result: false for an unknown device or a value the
\* device does not support.  Every device is one of createMockDevice:
\* supported_sample_rates = {44100, 48000, 88200, 96000, 192000},
\* min_buffer_size = 32, max_buffer_size = 2048,
\* supported_bit_depths = {16, 24, 32}.
ValidDeviceConfig(device_id, sample_rate, buffer_size_, bit_depth) ==
    /\ getDevice(devices_, device_id) # << >>
    /\ sample_rate \in {44100, 48000, 88200, 96000, 192000}
    /\ buffer_size_ >= 32
    /\ buffer_size_ <= 2048
    /\ bit_depth \in {16, 24, 32}

\* Faulty variant: a rejected configuration marks the device as failed.
setDeviceConfigMarksError(device_id, sample_rate, buffer_size_, bit_depth) ==
    LET valid == ValidDeviceConfig(device_id, sample_rate, buffer_size_, bit_depth)
        now == IF valid \/ getDevice(devices_, device_id) = << >>
                 THEN Tables
                 ELSE updateDeviceStatus(Tables, device_id, "Error")
    IN  /\ devices_' = now.devices
        /\ device_status_' = now.status
        /\ Called("setDeviceConfig", device_id, IF valid THEN "true" ELSE "false")
        /\ UNCHANGED << active_device_id_, status_updates, engineVars,
                        serverVars, mainVars, routerVars, configVars >>

\* setDeviceConfig: validates against the device's limits and logs; nothing
\* is stored.
setDeviceConfig(device_id, sample_rate, buffer_size_, bit_depth) ==
    /\ Called("setDeviceConfig", device_id,
              IF ValidDeviceConfig(device_id, sample_rate, buffer_size_, bit_depth)
                THEN "true" ELSE "false")
    /\ UNCHANGED << devices_, device_status_, active_device_id_,
                    status_updates, engineVars, serverVars, mainVars,
                    routerVars, configVars >>

\* scanDevices, activateDevice and deactivateDevice.
DeviceNext ==
    \/ scanDevices
    \/ \E id \in DeviceIds : activateDevice(id)
    \/ \E id \in DeviceIds : deactivateDevice(id)

\* Every public operation that is not const.  setDeviceConfig is called
\* with one configuration the devices support and three with one value they
\* do not.
DevicePublicNext ==
    \/ DeviceNext
    \/ \E id \in DeviceIds,
          status \in {"Active", "Inactive", "Disabled", "Error"} :
          DirectUpdateDeviceStatus(id, status)
    \/ \E id \in DeviceIds,
          c \in { << 48000, 256, 24 >>, << 22050, 256, 24 >>,
                  << 48000, 4096, 24 >>, << 48000, 256, 8 >> } :
          setDeviceConfig(id, c[1], c[2], c[3])

\* ===================================================== ConfigManager
\* The configuration manager as its owner calls it, one call at a time.

\* a & b on non-negative ints.
RECURSIVE BitAnd(_, _)
BitAnd(a, b) ==
    IF a = 0 \/ b = 0 THEN 0
    ELSE (a % 2) * (b % 2) + 2 * BitAnd(a \div 2, b \div 2)

\* std::find(valid_rates.begin(), valid_rates.end(), sample_rate) != end()
isValidSampleRate(sample_rate) ==
    LET valid_rates == << 44100, 48000, 88200, 96000, 192000 >>
    IN  \E i \in DOMAIN valid_rates : valid_rates[i] = sample_rate

\* buffer_size >= 32 && buffer_size <= 2048 && (buffer_size & (buffer_size - 1)) == 0
isValidBufferSize(buffer_size_) ==
    /\ buffer_size_ >= 32
    /\ buffer_size_ <= 2048
    /\ BitAnd(buffer_size_, buffer_size_ - 1) = 0

isValidBitDepth(bit_depth) == bit_depth = 16 \/ bit_depth = 24 \/ bit_depth = 32

validateAudioConfig(config) ==
    /\ isValidSampleRate(config.sample_rate)
    /\ isValidBufferSize(config.buffer_size)
    /\ isValidBitDepth(config.bit_depth)
    /\ config.channels > 0
    /\ config.channels <= 8

validateConfig(config) ==
    validateAudioConfig(config.audio) /\ config.active_device_id >= -1

\* audio = getDefaultAudioConfig(): 48000, 256, 24, 2.
getDefaultSystemConfig ==
    [audio |-> DefaultConfig,
     active_device_id |-> -1,
     current_audio_file |-> "T-Rex Roar (Default)",
     auto_save |-> TRUE,
     config_file_path |-> "config.txt"]

\* A line "key=value" of a configuration file: its key, the text of its
\* value, whether std::stoi converts that text, and to what.  A comment and
\* a line without '=' have the key "#".
Line(key, text, numeric, value) ==
    [key |-> key, text |-> text, numeric |-> numeric, value |-> value]

\* loadFromFile, the loop over the lines from line i on: each known key is
\* assigned as it is read, with no validation; std::stoi throws on a text
\* that is no number, and the assignments made before that stay.
RECURSIVE ReadLines(_, _, _)
ReadLines(config, lines, i) ==
    IF i > Len(lines) THEN [config |-> config, threw |-> FALSE]
    ELSE LET line == lines[i]
             int_key == line.key \in {"sample_rate", "buffer_size", "bit_depth",
                                      "channels", "active_device_id"}
         IN  IF int_key /\ ~line.numeric
               THEN [config |-> config, threw |-> TRUE]
               ELSE ReadLines(
                      CASE line.key = "sample_rate" ->
                             [config EXCEPT !.audio.sample_rate = line.value]
                        [] line.key = "buffer_size" ->
                             [config EXCEPT !.audio.buffer_size = line.value]
                        [] line.key = "bit_depth" ->
                             [config EXCEPT !.audio.bit_depth = line.value]
                        [] line.key = "channels" ->
                             [config EXCEPT !.audio.channels = line.value]
                        [] line.key = "active_device_id" ->
                             [config EXCEPT !.active_device_id = line.value]
                        [] line.key = "current_audio_file" ->
                             [config EXCEPT !.current_audio_file = line.text]
                        [] OTHER -> config,
                      lines, i + 1)

\* loadFromFile on a file [exists, lines]: false when the file cannot be
\* opened or is empty, true once its lines are read.
loadFromFile(config, file) ==
    IF ~file.exists \/ file.lines = << >>
      THEN [config |-> config, ret |-> "false"]
      ELSE LET read == ReadLines(config, file.lines, 1)
           IN  [config |-> read.config,
                ret |-> IF read.threw THEN "threw" ELSE "true"]

CmCalled(op, ret, notified) ==
    cm_call' = [op |-> op, ret |-> ret, notified |-> notified]

\* notifyConfigChanged: if (config_change_callback_) config_change_callback_(..)
notifyConfigChanged == config_change_callback_

\* ConfigManager(): initializeDefaults();
ConfigInit ==
    /\ system_config_ = getDefaultSystemConfig
    /\ device_profiles_ = {}
    /\ config_change_callback_ = FALSE
    /\ cm_call = [op |-> "ConfigManager", ret |-> "void", notified |-> FALSE]

\* loadConfig: the file at config_path, or at system_config_.config_file_path.
loadConfig(file) ==
    LET loaded == loadFromFile(system_config_, file)
    IN  /\ system_config_' = loaded.config
        /\ CmCalled("loadConfig", loaded.ret, FALSE)
        /\ UNCHANGED << device_profiles_, config_change_callback_ >>

\* resetToDefaults
resetToDefaults ==
    /\ system_config_' = getDefaultSystemConfig
    /\ device_profiles_' = {}
    /\ CmCalled("resetToDefaults", "void", notifyConfigChanged)
    /\ UNCHANGED config_change_callback_

\* setSystemConfig
setSystemConfig(config) ==
    /\ IF ~validateConfig(config)
         THEN /\ CmCalled("setSystemConfig", "false", FALSE)
              /\ UNCHANGED system_config_
         ELSE /\ system_config_' = config
              /\ CmCalled("setSystemConfig", "true", notifyConfigChanged)
    /\ UNCHANGED << device_profiles_, config_change_callback_ >>

\* setAudioConfig
setAudioConfig(config) ==
    /\ IF ~validateAudioConfig(config)
         THEN /\ CmCalled("setAudioConfig", "false", FALSE)
              /\ UNCHANGED system_config_
         ELSE /\ system_config_' = [system_config_ EXCEPT !.audio = config]
              /\ CmCalled("setAudioConfig", "true", notifyConfigChanged)
    /\ UNCHANGED << device_profiles_, config_change_callback_ >>

\* saveDeviceProfile: device_profiles_[device_id] = config, if it is valid.
\* The model keeps the ids that have a profile.
saveDeviceProfile(device_id, config) ==
    /\ IF ~validateAudioConfig(config)
         THEN /\ CmCalled("saveDeviceProfile", "false", FALSE)
              /\ UNCHANGED device_profiles_
         ELSE /\ device_profiles_' = device_profiles_ \cup {device_id}
              /\ CmCalled("saveDeviceProfile", "true", FALSE)
    /\ UNCHANGED << system_config_, config_change_callback_ >>

\* setConfigChangeCallback(callback), callback not empty
setConfigChangeCallback ==
    /\ config_change_callback_' = TRUE
    /\ CmCalled("setConfigChangeCallback", "void", FALSE)
    /\ UNCHANGED << system_config_, device_profiles_ >>

\* loadConfig, resetToDefaults, the set operations and the registration of
\* the change callback.  The configuration files the manager may find: none;
\* an empty one; one with a comment only; one as saveToFile writes it; files
\* with a value validateAudioConfig rejects; a file whose second value is no
\* number.  The audio configurations passed to the set operations: those of
\* Configs, and one for each way validateAudioConfig rejects.
ConfigNext ==
    /\ \/ \E file \in
             { [exists |-> FALSE, lines |-> << >>],
               [exists |-> TRUE, lines |-> << >>],
               [exists |-> TRUE, lines |-> << Line("#", "", FALSE, 0) >>],
               [exists |-> TRUE,
                lines |-> << Line("#", "", FALSE, 0),
                             Line("sample_rate", "96000", TRUE, 96000),
                             Line("buffer_size", "512", TRUE, 512),
                             Line("bit_depth", "16", TRUE, 16),
                             Line("channels", "1", TRUE, 1),
                             Line("active_device_id", "3", TRUE, 3),
                             Line("current_audio_file", "song.wav", FALSE, 0) >>],
               [exists |-> TRUE,
                lines |-> << Line("sample_rate", "22050", TRUE, 22050) >>],
               [exists |-> TRUE,
                lines |-> << Line("buffer_size", "100", TRUE, 100),
                             Line("channels", "0", TRUE, 0) >>],
               [exists |-> TRUE,
                lines |-> << Line("sample_rate", "44100", TRUE, 44100),
                             Line("bit_depth", "deep", FALSE, 0),
                             Line("channels", "1", TRUE, 1) >>] } :
             loadConfig(file)
       \/ resetToDefaults
       \/ \E a \in { [DefaultConfig EXCEPT !.sample_rate = 88200],
                      [DefaultConfig EXCEPT !.bit_depth = 20] },
             d \in {-2, 4} :
             setSystemConfig([getDefaultSystemConfig EXCEPT
                                 !.audio = a, !.active_device_id = d])
       \/ \E config \in Configs \cup
                         { [DefaultConfig EXCEPT !.sample_rate = 22050],
                           [DefaultConfig EXCEPT !.buffer_size = 16],
                           [DefaultConfig EXCEPT !.buffer_size = 4096],
                           [DefaultConfig EXCEPT !.buffer_size = 96],
                           [DefaultConfig EXCEPT !.bit_depth = 8],
                           [DefaultConfig EXCEPT !.channels = 0],
                           [DefaultConfig EXCEPT !.channels = 9] } :
             setAudioConfig(config)
       \/ saveDeviceProfile(1, DefaultConfig)
       \/ setConfigChangeCallback
    /\ UNCHANGED << engineVars, serverVars, mainVars, routerVars, deviceVars >>

\* ============================================== the server in main()
\* Requests handled by the server as main() builds it: the dispatcher holds
\* the three collaborators, and each handler reads their state of the moment.

\* main(): g_server = make_unique<WebServer>(port); setStaticDirectory;
\* setAudioEngine; setDeviceManager; setConfigManager.
ServingInit ==
    /\ EngineInit /\ ServerInit /\ MainInit /\ DeviceInit /\ ConfigInit
    /\ routes_ = setupRoutes
    /\ static_directory_ = StaticRoot
    /\ audio_engine_ = TRUE
    /\ device_manager_ = TRUE
    /\ config_manager_ = TRUE
    /\ files = SiteFiles
    /\ request = NoRequest
    /\ response = << >>
    /\ handled = NoneHandled

\* What the owners of the collaborators do while the server serves.  The
\* handlers read getDevices(), getAudioConfig() and isInitialized().
ServingNext ==
    \/ \E req \in Requests :
          HandleClient(req, [devices |-> devices_,
                             config |-> system_config_.audio,
                             initialized |-> initialized_])
    \/ HandlerEnd
    \/ CtlInitializeBegin
    \/ CtlInitConfig
    \/ CtlInitLatency
    \/ CtlInitThread
    \/ CtlPlay
    \/ CtlPause
    \/ WebStart
    \/ \E id \in {1, 3} : activateDevice(id)
    \/ /\ setAudioConfig([DefaultConfig EXCEPT !.sample_rate = 96000])
       /\ UNCHANGED << engineVars, serverVars, mainVars, routerVars, deviceVars >>

\* =================================================== specifications

Init == EngineInit /\ ServerInit /\ MainInit /\ RouterInit /\ DeviceInit
           /\ ConfigInit

\* The engine alone: the server stays as constructed.
EngineSpec == Init /\ [][EngineNext]_vars

\* The scheduler runs every thread that can take a step: the audio thread and
\* a controller inside an operation make progress.  An idle controller and
\* the observer need not call anything.
EngineFairSpec ==
    /\ EngineSpec
    /\ WF_vars(AudioThread)
    /\ WF_vars(ctl_pc # "idle" /\ Controller)

\* The server alone: the engine stays as constructed.
ServerSpec == Init /\ [][ServerNext]_vars

\* The server thread and the handler threads make progress when they can;
\* clients need not connect, accept() need not fail, and start() and stop()
\* need not be called.
ServerFairSpec ==
    /\ ServerSpec
    /\ WF_vars(AcceptLoop)
    /\ WF_vars(Handlers)

\* One client's handler may block for ever in recv() or send(); every other
\* thread makes progress, and an accept() with a connection pending returns
\* it.  closesocket() does not block: the slow client's handler calls it
\* once its handleClient has returned.
SlowClientSpec ==
    /\ ServerSpec
    /\ WF_vars(AcceptLoopCheck)
    /\ SF_vars(AcceptReturn)
    /\ WF_vars(HandlerClose(SlowClient))
    /\ \A c \in Clients \ {SlowClient} :
          WF_vars(HandlerRecv(c) \/ HandlerSend(c) \/ HandlerClose(c))

\* main()'s process; the main thread makes progress.
MainSpec == Init /\ [][MainNext]_vars

MainFairSpec == MainSpec /\ WF_vars(exit_code = -1 /\ Main)

\* The request dispatcher, one request at a time.
RouterSpec == Init /\ [][RouterNext]_vars

\* The device manager alone, called with scanDevices, activateDevice and
\* deactivateDevice.
DeviceSpec == Init /\ [][DeviceNext]_vars

\* The device manager alone, called with every operation of its interface.
DevicePublicSpec == Init /\ [][DevicePublicNext]_vars

\* The configuration manager alone.
ConfigSpec == Init /\ [][ConfigNext]_vars

\* The server of main() handling requests while the collaborators change.
ServingSpec == ServingInit /\ [][ServingNext]_vars

\* The whole process.
Next == EngineNext \/ ServerNext \/ RouterNext \/ DevicePublicNext \/ ConfigNext

Spec == Init /\ [][Next]_vars

\* ======================================================= properties

\* C1. Atomic publish: no getMetrics() returns a snapshot that holds only a
\* part of one tick's updates (is_playing of the running tick with the
\* spectrum of the tick before).
C1_AtomicPublish == ~got_partial

\* shutdown() is executing (called directly, or by initialize() on an
\* initialized engine).
ShutdownRunning ==
    /\ ctl_op \in {"shutdown", "initialize"}
    /\ ctl_pc \in {"stop_lock", "set_should_stop", "join"}

\* C2. shutdown() on an initialized engine always returns, and when it has
\* returned the background loop has ended (it writes the snapshot no more).
C2_ShutdownJoins ==
    /\ [](ShutdownRunning => <>(~ShutdownRunning))
    /\ []((~initialized_ /\ ctl_pc = "idle") => audio_thread_ = "none")

\* C3. The visualization callback runs while the audio thread does not hold
\* metrics_mutex_, so a callback that calls getMetrics() or stop() returns
\* instead of blocking for ever.
C3_CallbackOutsideLock ==
    /\ CallbackRunning => metrics_mutex_ # "audio"
    /\ audio_thread_ # "deadlocked"

\* C4. At any point after initialize(), the spectrum getMetrics() returns has
\* exactly 32 bins, each in [0, 1].
C4_SpectrumShape ==
    initialized_ =>
        /\ Len(getMetrics.spectrum_data) = NumBins
        /\ \A i \in 1..Len(getMetrics.spectrum_data) :
              getMetrics.spectrum_data[i] >= 0 /\ getMetrics.spectrum_data[i] <= One

\* C5. Once pause() or stop() has returned and a tick that began after it has
\* completed, with no play() since, every one of the 32 bins is exactly 0.1,
\* and stays 0.1 after every later tick.
C5_InactiveSpectrumFlat ==
    quiet >= 1 =>
        /\ Len(getMetrics.spectrum_data) = NumBins
        /\ \A i \in 1..NumBins : 10 * getMetrics.spectrum_data[i] = One

C5_Witness ==
    /\ quiet >= 2
    /\ initialized_
    /\ ~playing_
    /\ audio_thread_ = "sleep"

\* C6. After initialize(config) and after any successful setConfig(config'),
\* input_latency = output_latency = buffer_size / sample_rate * 1000 of the
\* engine's current config, and total_latency is exactly twice that.
\* (latency / RateLcm = buffer_size / sample_rate, cross-multiplied, with both
\* sides divided by RateGcd to stay within 32 bits.)
C6_LatencyMatchesConfig ==
    (initialized_ /\ ctl_pc = "idle") =>
        /\ getMetrics.input_latency * (config_.sample_rate \div RateGcd)
              = config_.buffer_size * (RateLcm \div RateGcd)
        /\ getMetrics.output_latency = getMetrics.input_latency
        /\ getMetrics.total_latency = 2 * getMetrics.input_latency

C6_Witness ==
    /\ initialized_
    /\ ctl_pc = "idle"
    /\ config_set
    /\ config_.buffer_size # DefaultConfig.buffer_size
    /\ getMetrics.total_latency > 0

C8_NoAcceptAfterStop ==
    \A c \in late : conn[c] \in {"queued", "reset"} /\ c \notin responded

\* C9. After stop() on a running server the accept loop eventually ends and
\* closes the listening socket, even if no further client connects.
C9_AcceptLoopEnds ==
    (~running_ /\ accept_loop \in {"check", "accept"})
        ~> (accept_loop = "done" /\ listen_socket = "closed")

\* C10. stop() is idempotent: it can always be called, it leaves running_
\* false, and on a server that is not running (stopped before, or never
\* started) it changes nothing.
C10_StopIdempotent ==
    /\ [](ENABLED WebStop)
    /\ [][WebStop =>
            /\ running_' = FALSE
            /\ (~running_ \/ stop_calls >= 1) =>
                  UNCHANGED << listen_socket, accept_loop, conn, backlog,
                               responded, late >>
            /\ ~running_ => UNCHANGED running_
         ]_vars

\* stop() was called twice in a row on a server that had been started.
C10_Witness ==
    /\ stop_calls >= 2
    /\ accept_loop # "none"
    /\ ~running_

\* C11. When socket(), bind() or listen() fails, start() returns false with
\* running_ false, no server thread started and no socket left open, and
\* main() calls start() no second time and returns 1.
C11_StartFailure ==
    /\ [][ start(FALSE) =>
              /\ ~running_ /\ ~running_'
              /\ UNCHANGED << accept_loop, listen_socket, open_sockets >>
         ]_vars
    /\ [][ start_ret = "false" => ~MainStart ]_vars
    /\ [][ (main_pc = "started" /\ start_ret = "false" /\ main_pc' = "exited"
               /\ ~signalHandler) => exit_code' = 1 ]_vars
    /\ (main_pc = "started" /\ start_ret = "false") ~> (main_pc = "exited")

\* main() has returned 1 after a start() that failed.
C11_Witness ==
    /\ start_ret = "false"
    /\ main_pc = "exited"
    /\ exit_code = 1
    /\ ~running_
    /\ accept_loop = "none"
    /\ open_sockets = 0

\* ------------------------------------- reading a response, as a client
\* The status line, the header lines up to the first blank line, the body
\* after it.
StatusLine(resp) == IF resp = << >> THEN "" ELSE resp[1]

HeaderLength(resp) ==
    LET ends == {i \in 1..(Len(resp) - 1) : resp[i] = CRLF /\ resp[i + 1] = CRLF}
    IN  IF ends = {} THEN Len(resp)
        ELSE (CHOOSE i \in ends : \A j \in ends : i <= j) - 1

Body(resp) == SubSeq(resp, HeaderLength(resp) + 3, Len(resp))

\* A JSON text may begin with white space.
RECURSIVE JsonText(_)
JsonText(body) ==
    IF body # << >> /\ IsSpace(Head(body)) THEN JsonText(Tail(body)) ELSE body

Handling == request # NoRequest

\* The routes registered for exactly this method and this path.
RoutesFor(method, path) ==
    {i \in 1..Len(routes_) : routes_[i].method = method /\ routes_[i].path = path}

\* C12. A request invokes a handler only if its method and its path (the
\* target up to the first '?') are each equal to the route's; GET /api/device
\* invokes no handler, whatever routes with a similar path are registered.
C12_ExactRouteMatch ==
    Handling =>
        /\ \A k \in 1..Len(handled.invoked) :
              /\ routes_[handled.invoked[k]].method = request.method
              /\ routes_[handled.invoked[k]].path = request.path
        /\ (request.path = << "/", "api", "/", "device" >>) => handled.invoked = << >>

\* GET /api/device was answered 404 by a server that has routes for
\* /api/devices and for /api.
C12_Witness ==
    /\ request.method = << "GET" >>
    /\ request.path = << "/", "api", "/", "device" >>
    /\ Len(routes_) > Len(setupRoutes)
    /\ routes_[Len(routes_)].path = << "/", "api" >>
    /\ handled.invoked = << >>
    /\ StatusLine(response) = "HTTP/1.1 404 Not Found"

\* The least informative answers of the collaborators.
AnyWorld == CHOOSE world \in Worlds : ~world.initialized

\* C13. For a registered route (m, p) and a query q, the request "m p?q"
\* invokes the handler that "m p" invokes and has the same status line.
C13_QueryIgnoredByMatching ==
    \A i \in 1..Len(routes_) : \A q \in Queries \ {<< >>} :
        request.raw = RawRequest(routes_[i].method, routes_[i].path \o q) =>
            LET plain == handleClient(RawRequest(routes_[i].method,
                                                 routes_[i].path), AnyWorld)
            IN  /\ handled.invoked = plain.invoked
                /\ StatusLine(response) = StatusLine(plain.response)

\* GET /api/status?x=1 was answered by the handler of GET /api/status.
C13_Witness ==
    /\ request.method = << "GET" >>
    /\ request.path = << "/", "api", "/", "status" >>
    /\ request.query = << "?", "x", "=", "1" >>
    /\ handled.invoked = << 3 >>
    /\ StatusLine(response) = "HTTP/1.1 200 OK"

\* The file a GET for this path is answered from.
FilePath(path) == IF path = << "/" >> THEN << "/", "index", ".html" >> ELSE path

\* The location is inside the static root.
UnderStaticRoot(location) ==
    LET root == Locate(static_directory_)
    IN  Len(location) > Len(root) /\ SubSeq(location, 1, Len(root)) = root

\* A file under the static root is at this path.
StaticFileAt(path) ==
    /\ Locate(static_directory_ \o FilePath(path)) \in DOMAIN files
    /\ UnderStaticRoot(Locate(static_directory_ \o FilePath(path)))

\* C14. A GET whose path matches no route and no file under the static root
\* is answered 404 with the body <h1>404 Not Found</h1>, whatever its query.
C14_NotFound ==
    ( /\ Handling
      /\ request.method = << "GET" >>
      /\ RoutesFor(request.method, request.path) = {}
      /\ ~StaticFileAt(request.path) ) =>
        /\ StatusLine(response) = "HTTP/1.1 404 Not Found"
        /\ Body(response) = << "<h1>404 Not Found</h1>" >>

\* C15. GET / is answered 200 with the content of <static root>/index.html
\* when that file exists, and 404 when it does not.
C15_IndexHtml ==
    ( /\ Handling
      /\ request.method = << "GET" >>
      /\ request.path = << "/" >>
      /\ static_directory_ = StaticRoot ) =>
        IF InStatic(<< << "index", ".html" >> >>) \in DOMAIN files
          THEN /\ StatusLine(response) = "HTTP/1.1 200 OK"
               /\ Body(response) = files[InStatic(<< << "index", ".html" >> >>)]
          ELSE StatusLine(response) = "HTTP/1.1 404 Not Found"

\* The three header lines of cors_headers.
CorsHeaderLines ==
    { "Access-Control-Allow-Origin: *",
      "Access-Control-Allow-Methods: GET, POST, PUT, DELETE, OPTIONS",
      "Access-Control-Allow-Headers: Content-Type, Authorization" }

\* C16. Every response has each of the three CORS headers exactly once, as a
\* line of its header block (before the first blank line), also when the body
\* holds a blank line.
C16_CorsHeaders ==
    Handling =>
        /\ HeaderLength(response) < Len(response)
        /\ \A line \in CorsHeaderLines :
              /\ Cardinality({i \in 1..Len(response) : response[i] = line}) = 1
              /\ \E i \in 2..HeaderLength(response) :
                    /\ response[i] = line
                    /\ response[i - 1] = CRLF
                    /\ response[i + 1] = CRLF

\* A static file whose content holds a blank line was served.
C16_Witness ==
    /\ Handling
    /\ handled.opened # << >>
    /\ StatusLine(response) = "HTTP/1.1 200 OK"
    /\ \E i \in 1..(Len(Body(response)) - 1) :
          Body(response)[i] = CRLF /\ Body(response)[i + 1] = CRLF

\* C17. The route table only grows at its end; a request invokes at most one
\* handler, that of the earliest route registered for its method and path; a
\* route added for a method and path the constructor registered is never
\* invoked.
C17_FirstMatchWins ==
    /\ [][ routes_' # routes_ =>
              /\ Len(routes_') = Len(routes_) + 1
              /\ SubSeq(routes_', 1, Len(routes_)) = routes_ ]_vars
    /\ [](Len(handled.invoked) <= 1)
    /\ [](\A k \in 1..Len(handled.invoked) :
             \A j \in RoutesFor(request.method, request.path) :
                 handled.invoked[k] <= j)
    /\ [](\A k \in 1..Len(handled.invoked) :
             \A j \in 1..Len(setupRoutes) :
                 ( /\ handled.invoked[k] > Len(setupRoutes)
                   /\ routes_[handled.invoked[k]].method = routes_[j].method )
                     => routes_[handled.invoked[k]].path # routes_[j].path)

\* GET /api/devices was handled with a second route registered for it.
C17_Witness ==
    /\ Cardinality(RoutesFor(<< "GET" >>, ApiDevices)) = 2
    /\ request.method = << "GET" >>
    /\ request.path = ApiDevices
    /\ handled.invoked = << 1 >>

\* C18. A request whose method is not GET and that matches no route is
\* answered 404 without a file being looked up, also when a file is at its
\* path under the static root.
C18_StaticOnlyForGet ==
    ( /\ Handling
      /\ request.method # << "GET" >>
      /\ RoutesFor(request.method, request.path) = {} ) =>
        /\ StatusLine(response) = "HTTP/1.1 404 Not Found"
        /\ handled.opened = << >>
        /\ handled.invoked = << >>

\* POST /index.html was answered 404 while static/index.html exists.
C18_Witness ==
    /\ request.method = << "POST" >>
    /\ request.path = << "/", "index", ".html" >>
    /\ StaticFileAt(request.path)
    /\ StatusLine(response) = "HTTP/1.1 404 Not Found"
    /\ handled.opened = << >>

\* The collaborator a handler of setupRoutes needs.
Needs(handler) ==
    CASE handler = "handleDevicesAPI" -> {"device_manager"}
      [] handler = "handleConfigAPI"  -> {"config_manager"}
      [] handler = "handleAudioAPI"   -> {"audio_engine"}
      [] OTHER -> {}

\* The collaborators that are not wired.
Missing ==
    (IF audio_engine_ THEN {} ELSE {"audio_engine"})
      \cup (IF device_manager_ THEN {} ELSE {"device_manager"})
      \cup (IF config_manager_ THEN {} ELSE {"config_manager"})

\* The value the status JSON gives for a component.
StatusOf(json, component) ==
    LET key == CASE component = "audio_engine"   -> ", \"audio_engine\": \""
                 [] component = "device_manager" -> ", \"device_manager\": \""
                 [] component = "config_manager" -> ", \"config_manager\": \""
    IN  IF find(json, key) = 0 THEN "" ELSE json[find(json, key) + 1]

\* C19. With a collaborator not wired, its route still answers 200 with a
\* JSON body that begins {"error": , no handler dereferences a missing
\* collaborator, and /api/status reports it "offline".
C19_MissingCollaborator ==
    \A k \in 1..Len(handled.invoked) :
        LET handler == routes_[handled.invoked[k]].handler
            json    == JsonText(Body(response))
        IN  /\ handled.deref \cap Missing = {}
            /\ (Needs(handler) \cap Missing # {}) =>
                  /\ StatusLine(response) = "HTTP/1.1 200 OK"
                  /\ Len(json) = 3
                  /\ json[1] = "{\"error\": \""
                  /\ json[3] = "\"}"
            /\ handler = "handleStatusAPI" =>
                  /\ StatusLine(response) = "HTTP/1.1 200 OK"
                  /\ \A component \in Missing :
                        StatusOf(json, component) = "offline"

\* GET /api/devices was answered without a device manager.
C19_Witness ==
    /\ ~device_manager_
    /\ request.method = << "GET" >>
    /\ request.path = ApiDevices
    /\ handled.invoked = << 1 >>
    /\ JsonText(Body(response))[2] = "Device manager not available"

\* C20. While the handler of one connection is blocked in recv() or send(),
\* a connection waiting on the listening socket is still accepted, and a
\* request received on another connection is still answered.
C20_SlowClientDoesNotBlock ==
    \A c \in Clients \ {SlowClient} :
        /\ (conn[c] = "queued" /\ accept_loop = "accept") ~> (conn[c] # "queued")
        /\ (conn[c] = "received") ~> (c \in responded)

\* A client accepted after the slow one has its response while the slow
\* one's handler is still in recv().
C20_Witness ==
    /\ conn[SlowClient] = "accepted"
    /\ \E c \in Clients \ {SlowClient} : c \in behind_slow /\ c \in responded

\* The part of C21 that a finite run decides: a socket is closed by its
\* handler thread only, once, when handleClient has returned; a handler whose
\* recv() failed has sent nothing and sends nothing; and the recv() that
\* fails changes neither the accept loop nor any other connection.
C21_Local ==
    /\ [](\A c \in Clients :
            /\ closes[c] = (IF conn[c] = "closed" THEN 1 ELSE 0)
            /\ conn[c] = "failed" => c \notin responded
            /\ conn[c] = "sent" => c \in responded)
    /\ [][\A c \in Clients :
            /\ conn[c] = "failed" => conn'[c] \in {"failed", "closed"}
            /\ (conn[c] = "accepted" /\ conn'[c] = "failed") =>
                  /\ UNCHANGED << running_, listen_socket, accept_loop,
                                  backlog, responded >>
                  /\ \A d \in Clients \ {c} : conn'[d] = conn[d]
         ]_vars

\* C21 as stated.  A per-connection I/O failure stays local to that
\* connection: when the read returns no data or fails, the handler sends
\* nothing, the socket is closed exactly once, the accept loop keeps running
\* and other connections are handled normally; in every case each accepted
\* socket is eventually closed.
C21_EveryAcceptedSocketClosed ==
    /\ C21_Local
    /\ \A c \in Clients : HandlerActive(c) ~> (conn[c] = "closed")

\* C21. As amended: the same, but a socket is eventually closed once its
\* handler is not blocked in recv() or send(); a handler that blocks there
\* for ever leaves its socket open.
C21_FailureStaysLocal ==
    /\ C21_Local
    /\ (conn[SlowClient] \in {"failed", "sent"}) ~> (conn[SlowClient] = "closed")
    /\ \A c \in Clients \ {SlowClient} : HandlerActive(c) ~> (conn[c] = "closed")

\* One connection's recv() failed and its socket is closed without a
\* response, another connection has been answered and closed, and the accept
\* loop is still accepting.
C21_Witness ==
    /\ running_
    /\ accept_loop = "accept"
    /\ \E c, d \in Clients :
          /\ c # d
          /\ conn[c] = "closed" /\ closes[c] = 1 /\ c \notin responded
          /\ conn[d] = "closed" /\ closes[d] = 1 /\ d \in responded

\* C22. In-flight requests survive stop(): stop() touches no connection, and
\* a connection accepted before stop() was called still has its request
\* dispatched, its response sent and its socket closed after stop() has
\* returned.
C22_InFlightSurvivesStop ==
    /\ [][WebStop => UNCHANGED << conn, backlog, responded, closes >>]_vars
    /\ [](\A c \in in_flight : HandlerActive(c))
    /\ [][\A c \in Clients :
            conn[c] = "received" => conn'[c] \in {"received", "sent"}]_vars
    /\ \A c \in Clients :
          (c \in in_flight /\ conn[c] = "received")
              ~> (c \in responded /\ conn[c] = "closed" /\ closes[c] = 1)

\* The server is stopped, and a handler that had not answered when stop()
\* was called has sent its response since.
C22_Witness ==
    /\ ~running_
    /\ stop_calls >= 1
    /\ \E c \in in_flight : conn[c] = "sent" /\ c \in responded

\* C24. The snapshot's is_playing flag tracks playback: once stop() or pause()
\* has returned and a tick that began after it has completed, with no play()
\* since, every getMetrics() reports is_playing = false.
C24_IsPlayingTracksPlayback ==
    quiet >= 1 => getMetrics.is_playing = FALSE

\* The status of every device of the table, in the table's order.
TableStatus(devices) == [i \in DOMAIN devices |-> devices[i].status]

StatusWritten == TableStatus(devices_') # TableStatus(devices_)

\* C23 as stated.  Device status has a single writing operation: the status
\* of a device in the table changes only as the effect of activateDevice; no
\* other public operation changes it.
C23_OnlyActivateWritesStatus ==
    [][StatusWritten => dm_call'.op = "activateDevice"]_vars

\* C23. As amended: the status of a device in the table changes only as the
\* effect of activateDevice, deactivateDevice, updateDeviceStatus or
\* scanDevices; setDeviceConfig changes neither the table nor the status map
\* nor the active id.
C23_StatusWriters ==
    /\ [][StatusWritten =>
            dm_call'.op \in {"activateDevice", "deactivateDevice",
                             "updateDeviceStatus", "scanDevices"}]_vars
    /\ [][dm_call'.op = "setDeviceConfig" =>
            UNCHANGED << devices_, device_status_, active_device_id_ >>]_vars

\* setDeviceConfig has rejected a configuration for a device of a table in
\* which the other operations had changed statuses before.
C23_Witness ==
    /\ dm_call.op = "setDeviceConfig"
    /\ dm_call.id = 3
    /\ dm_call.ret = "false"
    /\ TableStatus(devices_) = << "Inactive", "Disabled", "Active", "Error" >>

\* C25. A device whose status is Disabled never becomes Active: after any
\* sequence of activateDevice and deactivateDevice calls following a scan,
\* the device created Disabled (id 2) is never Active, and activateDevice on
\* it returns false.
C25_DisabledNeverActive ==
    /\ getDevice(devices_, 2)[1].status # "Active"
    /\ (dm_call.op = "activateDevice" /\ dm_call.id = 2) => dm_call.ret = "false"

\* C26. After any sequence of scanDevices, activateDevice and
\* deactivateDevice at most one device of the table is Active, it is the
\* one isDeviceActive names, getDeviceStatus agrees with the table for every
\* device of it, and an activateDevice that fails (unknown or Disabled id)
\* leaves the active id and all statuses unchanged.
C26_OneActiveDevice ==
    /\ [](/\ Cardinality({i \in DOMAIN devices_ : devices_[i].status = "Active"}) <= 1
          /\ \A i \in DOMAIN devices_ :
                /\ devices_[i].status = "Active" <=> isDeviceActive(devices_[i].id)
                /\ getDeviceStatus(devices_[i].id) = devices_[i].status)
    /\ [][dm_call'.op = "activateDevice" =>
            LET device == getDevice(devices_, dm_call'.id)
                fails == device = << >> \/ device[1].status = "Disabled"
            IN  /\ dm_call'.ret = (IF fails THEN "false" ELSE "true")
                /\ fails => UNCHANGED << devices_, device_status_,
                                         active_device_id_ >>
         ]_vars

\* Device 3 is the active one, and activateDevice has just failed on the
\* Disabled device.
C26_Witness ==
    /\ dm_call = [op |-> "activateDevice", id |-> 2, ret |-> "false"]
    /\ active_device_id_ = 3
    /\ TableStatus(devices_) = << "Inactive", "Disabled", "Active", "Inactive" >>

\* C28. Handling an HTTP request is read-only: for every method, path and
\* parameters (POST /api/audio/play too) handleRequest leaves the engine's
\* playing and initialized flags and its config, the device table, the
\* status map and the active device, the stored configuration, the route
\* table and running_ unchanged.
C28_HandleRequestReadOnly ==
    [][(request = NoRequest /\ request' # NoRequest) =>
          UNCHANGED << playing_, initialized_, config_, devices_,
                       device_status_, active_device_id_, system_config_,
                       routes_, running_ >>]_vars

\* POST /api/audio/play has been answered by its handler on a running
\* server with an initialized engine, and nothing is playing.
C28_Witness ==
    /\ request.method = << "POST" >>
    /\ request.path = << "/", "api", "/", "audio", "/", "play" >>
    /\ handled.invoked = << 4 >>
    /\ running_
    /\ initialized_ /\ ~playing_
    /\ active_device_id_ = 3
    /\ system_config_.audio.sample_rate = 96000

\* C27. The audio configuration held by ConfigManager always satisfies
\* validateAudioConfig after any sequence of loadConfig, setAudioConfig,
\* setSystemConfig and resetToDefaults; a rejected set operation returns
\* false, leaves the stored configuration unchanged and does not call the
\* change callback.
C27_StoredConfigValid ==
    /\ [](validateAudioConfig(system_config_.audio))
    /\ [][(cm_call'.op \in {"setAudioConfig", "setSystemConfig"}
              /\ cm_call'.ret = "false") =>
            (UNCHANGED system_config_ /\ ~cm_call'.notified)]_vars

====
